---- MODULE Spec2Model ----
(***************************************************************************)
(* A model of the TinyG2 canonical machine (canonical_machine.cpp,         *)
(* spindle.cpp) and of the trapezoid solver (plan_zoid.cpp).               *)
(*                                                                         *)
(* Numbers.  Lengths, positions and offsets are integers counted in units  *)
(* of 0.0002 mm (0.0002 inch for inch input, 0.0002 degree for rotary      *)
(* axes), so that MM_PER_INCH = 25.4 is the exact ratio 254/10 on inputs   *)
(* that are multiples of 5.  Move times are exact rationals [n, d].        *)
(* Axes are numbered 1..6 (the source numbers them 0..5).                  *)
(***************************************************************************)
EXTENDS Integers, Sequences, FiniteSets, TLC

VARIABLES cm, gm, cfg, mb, mm, mr, main, call, seq, hist, bf

vars == <<cm, gm, cfg, mb, mm, mr, main, call, seq, hist, bf>>

(***************************************************************************)
(* Bounds of the model                                                     *)
(***************************************************************************)
\* blocks handed to the planner in one run
MaxBlocks == 4
\* largest |target| an input may produce on an axis
MaxPos == 300

\* blocks handed to the planner in one run of G92 commands
MaxCommands == 5

\* passes of the asymmetric iteration of mp_calculate_trapezoid followed
\* before the model gives the call up as not returning
MaxIter == 8

(***************************************************************************)
(* Enumerations and constants of canonical_machine.h / planner.h           *)
(***************************************************************************)
AXES == 6
AXIS_X == 1
AXIS_Y == 2
AXIS_Z == 3
AXIS_A == 4
AXIS_B == 5
AXIS_C == 6
Axis == 1..AXES

G53 == 0
G54 == 1
COORD_SYSTEM_MAX == 6

MM_PER_INCH_NUM == 254
MM_PER_INCH_DEN == 10

\* the planner ring (nominally 28 entries; a small ring in the model)
PLANNER_BUFFER_POOL_SIZE == 3
\* a ring that has room for the blocks of a whole program end
PROGRAM_BUFFER_POOL_SIZE == 8
\* shortest line the planner accepts: 0.001 mm = 5 units
MIN_LENGTH_MOVE == 5

STAT_OK == "STAT_OK"
STAT_GCODE_FEEDRATE_ERROR == "STAT_GCODE_FEEDRATE_ERROR"
STAT_INTERNAL_RANGE_ERROR == "STAT_INTERNAL_RANGE_ERROR"
STAT_MINIMUM_LENGTH_MOVE_ERROR == "STAT_MINIMUM_LENGTH_MOVE_ERROR"
STAT_BUFFER_FULL_FATAL == "STAT_BUFFER_FULL_FATAL"
STAT_ALARM == "STAT_ALARM"

MACHINE_INITIALIZING == "INITIALIZING"
MACHINE_READY == "READY"
MACHINE_ALARM == "ALARM"
MACHINE_PROGRAM_STOP == "PROGRAM_STOP"
MACHINE_PROGRAM_END == "PROGRAM_END"
MACHINE_CYCLE == "CYCLE"

COMBINED_READY == MACHINE_READY
COMBINED_RUN == "RUN"
COMBINED_HOLD == "HOLD"
COMBINED_HOMING == "HOMING"
COMBINED_PROBE == "PROBE"
COMBINED_JOG == "JOG"

CYCLE_OFF == "CYCLE_OFF"
CYCLE_STARTED == "CYCLE_STARTED"
CYCLE_HOMING == "CYCLE_HOMING"
CYCLE_PROBE == "CYCLE_PROBE"
CYCLE_JOG == "CYCLE_JOG"

MOTION_STOP == "MOTION_STOP"
MOTION_RUN == "MOTION_RUN"
MOTION_HOLD == "MOTION_HOLD"

FEEDHOLD_OFF == "FEEDHOLD_OFF"
FEEDHOLD_SYNC == "FEEDHOLD_SYNC"
FEEDHOLD_DECEL == "FEEDHOLD_DECEL"
FEEDHOLD_HOLD == "FEEDHOLD_HOLD"
FEEDHOLD_END_HOLD == "FEEDHOLD_END_HOLD"

MOTION_MODE_STRAIGHT_TRAVERSE == "G0"
MOTION_MODE_STRAIGHT_FEED == "G1"
MOTION_MODE_CANCEL_MOTION_MODE == "G80"

INCHES == "INCHES"
MILLIMETERS == "MILLIMETERS"
ABSOLUTE_MODE == "ABSOLUTE_MODE"
INCREMENTAL_MODE == "INCREMENTAL_MODE"

CANON_PLANE_XY == "XY"
CANON_PLANE_XZ == "XZ"
CANON_PLANE_YZ == "YZ"

PATH_EXACT_PATH == "PATH_EXACT_PATH"
PATH_EXACT_STOP == "PATH_EXACT_STOP"
PATH_CONTINUOUS == "PATH_CONTINUOUS"

AXIS_DISABLED == "AXIS_DISABLED"
AXIS_STANDARD == "AXIS_STANDARD"
AXIS_INHIBITED == "AXIS_INHIBITED"
AXIS_RADIUS == "AXIS_RADIUS"

SPINDLE_OFF == "SPINDLE_OFF"
SPINDLE_CW == "SPINDLE_CW"
SPINDLE_CCW == "SPINDLE_CCW"

MOVE_TYPE_ALINE == "ALINE"
MOVE_TYPE_COMMAND == "COMMAND"

(***************************************************************************)
(* Arithmetic helpers                                                      *)
(***************************************************************************)
ZeroVec == [i \in Axis |-> 0]

fabs(x) == IF x < 0 THEN -x ELSE x

square(x) == x * x

min(a, b) == IF a < b THEN a ELSE b

max(a, b) == IF a > b THEN a ELSE b

\* The single-precision infinity and not-a-number that a division by zero
\* leaves behind.  Every finite value of the model lies strictly between
\* -INFINITY and INFINITY.
INFINITY == 1000000

NAN == 2000000

isinf(x) == x = INFINITY \/ x = -INFINITY

isnan(x) == x = NAN

isfinite(x) == ~isinf(x) /\ ~isnan(x)

\* n / 0.0
DivideByZero(n) == IF n > 0 THEN INFINITY ELSE IF n < 0 THEN -INFINITY ELSE NAN

\* a + b
fadd(a, b) ==
    IF isnan(a) \/ isnan(b) THEN NAN
    ELSE IF isinf(a) THEN (IF isinf(b) /\ a # b THEN NAN ELSE a)
    ELSE IF isinf(b) THEN b
    ELSE a + b

\* fabs(a - b)
fabsdiff(a, b) ==
    IF isnan(a) \/ isnan(b) THEN NAN
    ELSE IF isinf(a) THEN (IF a = b THEN NAN ELSE INFINITY)
    ELSE IF isinf(b) THEN INFINITY
    ELSE fabs(a - b)

\* floor of the square root, by bisection on [lo, hi]
RECURSIVE SqrtSearch(_, _, _)
SqrtSearch(x, lo, hi) ==
    IF lo >= hi THEN lo
    ELSE LET mid == (lo + hi + 1) \div 2
         IN  IF mid * mid <= x THEN SqrtSearch(x, mid, hi)
                               ELSE SqrtSearch(x, lo, mid - 1)

sqrt(x) == SqrtSearch(x, 0, min(x, 46340))

\* quotient and remainder of a * b by c without forming the product
RECURSIVE MulDiv(_, _, _)
MulDiv(a, b, c) ==
    IF b = 0 THEN [q |-> 0, r |-> 0]
    ELSE LET p == MulDiv(a, b \div 2, c)
             v == 2 * p.r + (b % 2) * a
         IN  [q |-> 2 * p.q + v \div c, r |-> v % c]

\* exact rationals for move times
Rat(n, d) == [n |-> n, d |-> d]

RatLE(a, b) == a.n * b.d <= b.n * a.d

RatEQ(a, b) == a.n * b.d = b.n * a.d

RatMax(a, b) == IF RatLE(a, b) THEN b ELSE a

RatMin(a, b) == IF RatLE(a, b) THEN a ELSE b

max4(a, b, c, d) == RatMax(RatMax(a, b), RatMax(c, d))

fp_ZERO(a) == a = 0

fp_NOT_ZERO(a) == a # 0

fp_TRUE(a) == a # 0

fp_FALSE(a) == a = 0

vector_equal(a, b) == \A i \in Axis : a[i] = b[i]

RECURSIVE RatMaxUpTo(_, _)
RatMaxUpTo(t, i) ==
    IF i = 0 THEN Rat(0, 1) ELSE RatMax(RatMaxUpTo(t, i - 1), t[i])

RECURSIVE RatMinUpTo(_, _)
RatMinUpTo(t, i) ==
    IF i = 0 THEN Rat(1234567, 1) ELSE RatMin(RatMinUpTo(t, i - 1), t[i])

copy_axis_vector(src) == [i \in Axis |-> src[i]]

(***************************************************************************)
(* The machine as one value: the singletons cm, gm, cfg, the planner ring  *)
(* mb, the planner context mm and the runtime context mr.                  *)
(***************************************************************************)
St == [cm |-> cm, gm |-> gm, cfg |-> cfg, mb |-> mb, mm |-> mm, mr |-> mr,
       hist |-> hist]

(***************************************************************************)
(* Planner and runtime interface used by the canonical machine.  planner.cpp*)
(* is not part of the sources: these follow the specification (a bounded   *)
(* ring consumed in insertion order, a planner position, a runtime         *)
(* position and work offset).                                              *)
(***************************************************************************)
mp_get_planner_buffers_available(s) == s.mm.pool_size - Len(s.mb)

mp_get_runtime_machine_position(s, axis) == s.mr.position[axis]

mp_set_axis_position(s, axis, position) ==
    [s EXCEPT !.mm.position[axis] = position]

mp_set_runtime_work_offset(s, offsets) ==
    [s EXCEPT !.mr.work_offset = offsets]

\* the offset _exec_offset would install for coord_system as the model stands
OffsetOfModel(s, coord_system) ==
    [i \in 1..6 |-> s.cfg.offset[coord_system][i]
                    + (s.gm.origin_offset[i] * s.gm.origin_offset_enable)]

\* append a command block carrying a callback and two scalars; enqueued is
\* not a field of the block: it notes, for a runtime-offset command, the
\* offset of the model at the time of the call
mp_queue_command(s, cm_exec, int_val, float_val) ==
    IF mp_get_planner_buffers_available(s) = 0 THEN s
    ELSE LET id == Len(s.hist.qlog) + 1
         IN  [s EXCEPT !.mb = Append(@, [id |-> id,
                                         move_type |-> MOVE_TYPE_COMMAND,
                                         cm_exec |-> cm_exec,
                                         int_val |-> int_val,
                                         float_val |-> float_val,
                                         enqueued |-> IF cm_exec = "_exec_offset"
                                                      THEN OffsetOfModel(s, int_val)
                                                      ELSE [i \in 1..6 |-> 0]]),
                       !.hist.qlog = Append(@, MOVE_TYPE_COMMAND)]

\* squared length of the line from the planner position to target
LengthSquared(s, target) ==
    square(target[1] - s.mm.position[1]) + square(target[2] - s.mm.position[2])
    + square(target[3] - s.mm.position[3]) + square(target[4] - s.mm.position[4])
    + square(target[5] - s.mm.position[5]) + square(target[6] - s.mm.position[6])

\* MP_LINE: append a motion block; too-short lines and a full ring are errors
mp_aline(s, target, minutes, work_offset) ==
    IF mp_get_planner_buffers_available(s) = 0
    THEN [s |-> s, status |-> STAT_BUFFER_FULL_FATAL]
    ELSE IF (\A i \in Axis : isfinite(target[i]))
            /\ LengthSquared(s, target) < square(MIN_LENGTH_MOVE)
    THEN [s |-> s, status |-> STAT_MINIMUM_LENGTH_MOVE_ERROR]
    ELSE LET id == Len(s.hist.qlog) + 1
         IN  [s |-> [s EXCEPT !.mb = Append(@, [id |-> id,
                                                move_type |-> MOVE_TYPE_ALINE,
                                                target |-> target,
                                                time |-> minutes,
                                                work_offset |-> work_offset]),
                              !.mm.position = target,
                              !.hist.qlog = Append(@, MOVE_TYPE_ALINE)],
              status |-> STAT_OK]

\* empty the ring; whatever was running is abandoned
mp_flush_planner(s) ==
    [s EXCEPT !.mb = <<>>,
              !.mr.running = FALSE,
              !.hist.flushed = @ \cup {s.mb[k].id : k \in 1..Len(s.mb)},
              !.hist.nflush = 1 - @]

\* resume after a feedhold
mp_end_hold(s) ==
    IF s.cm.hold_state = FEEDHOLD_END_HOLD
    THEN [s EXCEPT !.cm.hold_state = FEEDHOLD_OFF,
                   !.cm.motion_state = IF Len(s.mb) = 0 THEN MOTION_STOP
                                                        ELSE MOTION_RUN]
    ELSE s

st_disable(s) == [s EXCEPT !.mr.enabled = FALSE]

(***************************************************************************)
(* canonical_machine.cpp: getters and setters                              *)
(***************************************************************************)
_to_millimeters(s, a) ==
    IF s.gm.units_mode = INCHES THEN (a * MM_PER_INCH_NUM) \div MM_PER_INCH_DEN
                                ELSE a

\* the offset with the absolute override left out of account
cm_get_coord_offset_no_override(s, axis) ==
    IF s.gm.origin_offset_enable = 1
    THEN s.cfg.offset[s.gm.coord_system][axis] + s.gm.origin_offset[axis]
    ELSE s.cfg.offset[s.gm.coord_system][axis]

cm_get_coord_offset(s, axis) ==
    IF s.gm.absolute_override = TRUE THEN 0
    ELSE IF s.gm.origin_offset_enable = 1
    THEN s.cfg.offset[s.gm.coord_system][axis] + s.gm.origin_offset[axis]
    ELSE s.cfg.offset[s.gm.coord_system][axis]

cm_get_coord_offset_vector(s) == [i \in Axis |-> cm_get_coord_offset(s, i)]

cm_get_model_work_position(s, axis) ==
    IF s.gm.units_mode = INCHES
    THEN ((s.gm.position[axis] - cm_get_coord_offset(s, axis)) * MM_PER_INCH_DEN)
         \div MM_PER_INCH_NUM
    ELSE s.gm.position[axis] - cm_get_coord_offset(s, axis)

cm_set_motion_mode(s, motion_mode) == [s EXCEPT !.gm.motion_mode = motion_mode]

cm_set_absolute_override(s, absolute_override) ==
    [s EXCEPT !.gm.absolute_override = absolute_override]

cm_set_spindle_mode(s, spindle_mode) == [s EXCEPT !.gm.spindle_mode = spindle_mode]

cm_set_spindle_speed_parameter(s, speed) == [s EXCEPT !.gm.spindle_speed = speed]

\* degrees of a standard rotary axis put through the inch conversion
_calc_ABC_converted(s, i, target, flag) ==
    IF s.cfg.a[i].axis_mode \in {AXIS_STANDARD, AXIS_INHIBITED}
    THEN _to_millimeters(s, target[i])
    ELSE IF s.cfg.a[i].axis_mode = AXIS_RADIUS /\ fp_TRUE(flag[i])
    THEN (_to_millimeters(s, target[i]) * 360 * 113) \div (2 * 355 * s.cfg.a[i].radius)
    ELSE 0

\* degrees for a rotary axis; pi is taken as 355/113, the radius in whole mm
_calc_ABC(s, i, target, flag) ==
    IF s.cfg.a[i].axis_mode \in {AXIS_STANDARD, AXIS_INHIBITED} THEN target[i]
    ELSE IF s.cfg.a[i].axis_mode = AXIS_RADIUS /\ fp_TRUE(flag[i])
    THEN IF s.cfg.a[i].radius = 0
         THEN DivideByZero(_to_millimeters(s, target[i]) * 360)
         ELSE (_to_millimeters(s, target[i]) * 360 * 113)
                  \div (2 * 355 * s.cfg.a[i].radius)
    ELSE 0

\* the work offset added in incremental distance mode as well
SetTargetAxis_offset_always(s, i, target, flag) ==
    IF fp_FALSE(flag[i]) \/ s.cfg.a[i].axis_mode = AXIS_DISABLED
    THEN s.gm.target[i]
    ELSE IF s.gm.distance_mode = ABSOLUTE_MODE
    THEN cm_get_coord_offset(s, i) + _to_millimeters(s, target[i])
    ELSE s.gm.target[i] + cm_get_coord_offset(s, i) + _to_millimeters(s, target[i])

\* the new target of one axis
SetTargetAxis(s, i, target, flag) ==
    IF fp_FALSE(flag[i]) \/ s.cfg.a[i].axis_mode = AXIS_DISABLED
    THEN s.gm.target[i]
    ELSE IF i <= AXIS_Z
    THEN IF s.cfg.a[i].axis_mode \in {AXIS_STANDARD, AXIS_INHIBITED}
         THEN IF s.gm.distance_mode = ABSOLUTE_MODE
              THEN cm_get_coord_offset(s, i) + _to_millimeters(s, target[i])
              ELSE s.gm.target[i] + _to_millimeters(s, target[i])
         ELSE s.gm.target[i]
    ELSE IF s.gm.distance_mode = ABSOLUTE_MODE
         THEN fadd(_calc_ABC(s, i, target, flag), cm_get_coord_offset(s, i))
         ELSE fadd(s.gm.target[i], _calc_ABC(s, i, target, flag))

\* the loop over A, B and C left out
cm_set_target_linear_only(s, target, flag) ==
    [s EXCEPT !.gm.target = [i \in Axis |-> IF i <= AXIS_Z
                                            THEN SetTargetAxis(s, i, target, flag)
                                            ELSE @[i]]]

cm_set_target(s, target, flag) ==
    [s EXCEPT !.gm.target = [i \in Axis |-> SetTargetAxis(s, i, target, flag)]]

(***************************************************************************)
(* The same arithmetic in single precision.  gm.target, gm.position and    *)
(* the offsets are floats: 24 significant bits, round to nearest, ties to  *)
(* even.  Rounding is the same at every power-of-two scale, so where the   *)
(* last bits matter a length is counted in units of 2^-22 mm (2^-22 inch   *)
(* for a word in inches): every float of magnitude 2 or more is a whole    *)
(* number of units, and the values used are zero or at least 2^23 units.   *)
(* MM_PER_INCH is 25.4, the expression offset + word * 25.4 is evaluated   *)
(* in double and rounded once when it is stored.                           *)
(***************************************************************************)
\* the spacing of the floats at magnitude n
Ulp(n) ==
    LET RECURSIVE Spacing(_)
        Spacing(u) == IF n \div u < 16777216 THEN u ELSE Spacing(2 * u)
    IN  Spacing(1)

\* q + r/d (0 <= r < d) stored in a float
SingleQ(q, r, d) ==
    LET u == Ulp(q)
        lo == (q \div u) * u
        rest == (q - lo) * d + r
    IN  IF 2 * rest < u * d THEN lo
        ELSE IF 2 * rest > u * d THEN lo + u
        ELSE IF (lo \div u) % 2 = 0 THEN lo ELSE lo + u

Single(n) == SingleQ(n, 0, 1)

\* offset + _to_millimeters(word), stored
SingleSum(s, base, word) ==
    IF s.gm.units_mode = INCHES
    THEN LET m == MulDiv(word, MM_PER_INCH_NUM, MM_PER_INCH_DEN)
         IN  SingleQ(base + m.q, m.r, MM_PER_INCH_DEN)
    ELSE Single(base + word)

\* lines 348-372, one axis
SetTargetAxisSingle(s, i, target, flag) ==
    IF fp_FALSE(flag[i]) \/ s.cfg.a[i].axis_mode = AXIS_DISABLED
    THEN s.gm.target[i]
    ELSE IF i <= AXIS_Z
    THEN IF s.cfg.a[i].axis_mode \in {AXIS_STANDARD, AXIS_INHIBITED}
         THEN IF s.gm.distance_mode = ABSOLUTE_MODE
              THEN SingleSum(s, cm_get_coord_offset(s, i), target[i])
              ELSE SingleSum(s, s.gm.target[i], target[i])
         ELSE s.gm.target[i]
    ELSE IF s.gm.distance_mode = ABSOLUTE_MODE
         THEN Single(_calc_ABC(s, i, target, flag) + cm_get_coord_offset(s, i))
         ELSE Single(s.gm.target[i] + _calc_ABC(s, i, target, flag))

cm_set_target_single(s, target, flag) ==
    [s EXCEPT !.gm.target = [i \in Axis |-> SetTargetAxisSingle(s, i, target, flag)]]

\* the work position read without taking the offset off
cm_get_model_work_position_single_machine(s, axis) ==
    IF s.gm.units_mode = INCHES
    THEN LET m == MulDiv(s.gm.position[axis], MM_PER_INCH_DEN, MM_PER_INCH_NUM)
         IN  SingleQ(m.q, m.r, MM_PER_INCH_NUM)
    ELSE s.gm.position[axis]

\* lines 229-236: the float difference, divided in double and returned as a
\* float
cm_get_model_work_position_single(s, axis) ==
    LET d == Single(s.gm.position[axis] - cm_get_coord_offset(s, axis))
    IN  IF s.gm.units_mode = INCHES
        THEN LET m == MulDiv(d, MM_PER_INCH_DEN, MM_PER_INCH_NUM)
             IN  SingleQ(m.q, m.r, MM_PER_INCH_NUM)
        ELSE d

cm_set_gcode_model_endpoint_position_always(s, status) ==
    [s EXCEPT !.gm.position = copy_axis_vector(s.gm.target)]

cm_set_gcode_model_endpoint_position(s, status) ==
    IF status = STAT_OK THEN [s EXCEPT !.gm.position = copy_axis_vector(s.gm.target)]
    ELSE s

\* an infinite time; under RatLE it lies above every finite time
RatInfinity == Rat(1, 0)

\* per-axis time at the axis limit
AxisTime(s, i) ==
    IF isinf(fabsdiff(s.gm.target[i], s.gm.position[i])) THEN RatInfinity
    ELSE IF s.gm.motion_mode = MOTION_MODE_STRAIGHT_FEED
    THEN Rat(fabs(s.gm.target[i] - s.gm.position[i]), s.cfg.a[i].feedrate_max)
    ELSE Rat(fabs(s.gm.target[i] - s.gm.position[i]), s.cfg.a[i].velocity_max)

\* the rotary part of a feed at the requested feed rate
abc_time_at_feed_rate(s) ==
    IF \E i \in {AXIS_A, AXIS_B, AXIS_C} :
           isinf(fabsdiff(s.gm.target[i], s.gm.position[i]))
    THEN RatInfinity
    ELSE Rat(sqrt(square(s.gm.target[AXIS_A] - s.gm.position[AXIS_A])
                + square(s.gm.target[AXIS_B] - s.gm.position[AXIS_B])
                + square(s.gm.target[AXIS_C] - s.gm.position[AXIS_C])),
             s.gm.feed_rate)

\* the rotary time computed whether or not the linear axes move
_get_move_times_abc_always(s) ==
    LET feed == s.gm.motion_mode = MOTION_MODE_STRAIGHT_FEED
        inv_time == IF feed /\ s.gm.inverse_feed_rate_mode = TRUE
                    THEN Rat(s.gm.inverse_feed_rate, 1) ELSE Rat(0, 1)
        xyz_time == IF feed /\ s.gm.inverse_feed_rate_mode # TRUE
                    THEN Rat(sqrt(square(s.gm.target[AXIS_X] - s.gm.position[AXIS_X])
                                + square(s.gm.target[AXIS_Y] - s.gm.position[AXIS_Y])
                                + square(s.gm.target[AXIS_Z] - s.gm.position[AXIS_Z])),
                             s.gm.feed_rate)
                    ELSE Rat(0, 1)
        abc_time == IF feed /\ s.gm.inverse_feed_rate_mode # TRUE
                    THEN Rat(sqrt(square(s.gm.target[AXIS_A] - s.gm.position[AXIS_A])
                                + square(s.gm.target[AXIS_B] - s.gm.position[AXIS_B])
                                + square(s.gm.target[AXIS_C] - s.gm.position[AXIS_C])),
                             s.gm.feed_rate)
                    ELSE Rat(0, 1)
        t == [i \in Axis |-> AxisTime(s, i)]
        max_time == RatMaxUpTo(t, AXES)
    IN  [optimal |-> max4(inv_time, max_time, xyz_time, abc_time),
         min_time |-> RatMinUpTo(t, AXES)]

_get_move_times(s) ==
    LET feed == s.gm.motion_mode = MOTION_MODE_STRAIGHT_FEED
        inv_time == IF feed /\ s.gm.inverse_feed_rate_mode = TRUE
                    THEN Rat(s.gm.inverse_feed_rate, 1) ELSE Rat(0, 1)
        xyz_time == IF feed /\ s.gm.inverse_feed_rate_mode # TRUE
                    THEN Rat(sqrt(square(s.gm.target[AXIS_X] - s.gm.position[AXIS_X])
                                + square(s.gm.target[AXIS_Y] - s.gm.position[AXIS_Y])
                                + square(s.gm.target[AXIS_Z] - s.gm.position[AXIS_Z])),
                             s.gm.feed_rate)
                    ELSE Rat(0, 1)
        abc_time == IF feed /\ s.gm.inverse_feed_rate_mode # TRUE /\ fp_ZERO(xyz_time.n)
                    THEN abc_time_at_feed_rate(s)
                    ELSE Rat(0, 1)
        t == [i \in Axis |-> AxisTime(s, i)]
        max_time == RatMaxUpTo(t, AXES)
    IN  [optimal |-> max4(inv_time, max_time, xyz_time, abc_time),
         min_time |-> RatMinUpTo(t, AXES)]

(***************************************************************************)
(* canonical_machine.cpp: program functions and queued commands            *)
(***************************************************************************)
\* a plausible slip: the cycle state set without looking at it
cm_cycle_start_always_started(s) ==
    [s EXCEPT !.cm.machine_state = MACHINE_CYCLE,
              !.cm.cycle_state = CYCLE_STARTED]

cm_cycle_start(s) ==
    [s EXCEPT !.cm.machine_state = MACHINE_CYCLE,
              !.cm.cycle_state = IF @ = CYCLE_OFF THEN CYCLE_STARTED ELSE @]

_program_finalize(s, machine_state, f) ==
    [s EXCEPT !.cm.machine_state = machine_state,
              !.cm.motion_state = MOTION_STOP,
              !.cm.cycle_state = CYCLE_OFF,
              !.cm.cycle_start_requested = FALSE,
              !.cm.hold_state = FEEDHOLD_OFF]

\* a plausible slip: the cycle ended whatever cycle it is
cm_cycle_end_any_cycle(s) ==
    IF s.cm.cycle_state # CYCLE_OFF
    THEN _program_finalize(s, MACHINE_PROGRAM_STOP, 0)
    ELSE s

cm_cycle_end(s) ==
    IF s.cm.cycle_state = CYCLE_STARTED
    THEN _program_finalize(s, MACHINE_PROGRAM_STOP, 0)
    ELSE s

\* a plausible slip: the machine stopped when the stop is read, not when the
\* queue reaches it
cm_program_stop_immediate(s) ==
    _program_finalize(mp_queue_command(s, "_program_finalize", MACHINE_PROGRAM_STOP, 0),
                      MACHINE_PROGRAM_STOP, 0)

cm_program_stop(s) == mp_queue_command(s, "_program_finalize", MACHINE_PROGRAM_STOP, 0)

cm_optional_program_stop(s) ==
    mp_queue_command(s, "_program_finalize", MACHINE_PROGRAM_STOP, 0)

_exec_offset(s, coord_system, float_val) ==
    mp_set_runtime_work_offset(s,
        [i \in Axis |-> s.cfg.offset[coord_system][i]
                        + (s.gm.origin_offset[i] * s.gm.origin_offset_enable)])

\* G10 L2 Pn: the offsets of one coordinate system, stored as given
WriteCoordOffsets(s, coord_system, offset, flag) ==
    [s EXCEPT !.cfg.offset[coord_system] =
                  [i \in Axis |-> IF fp_TRUE(flag[i]) THEN offset[i] ELSE @[i]],
              !.cm.g10_persist_flag =
                  IF \E i \in Axis : fp_TRUE(flag[i]) THEN TRUE ELSE @]

\* a plausible slip: G53 let through by a test of the upper end only
cm_set_coord_offsets_g53_writable(s, coord_system, offset, flag) ==
    IF coord_system > COORD_SYSTEM_MAX
    THEN [s |-> s, status |-> STAT_INTERNAL_RANGE_ERROR]
    ELSE [s |-> WriteCoordOffsets(s, coord_system, offset, flag), status |-> STAT_OK]

\* a plausible slip: the persist flag raised by every accepted call
cm_set_coord_offsets_always_flagged(s, coord_system, offset, flag) ==
    IF coord_system < G54 \/ coord_system > COORD_SYSTEM_MAX
    THEN [s |-> s, status |-> STAT_INTERNAL_RANGE_ERROR]
    ELSE [s |-> [WriteCoordOffsets(s, coord_system, offset, flag)
                    EXCEPT !.cm.g10_persist_flag = TRUE],
          status |-> STAT_OK]

cm_set_coord_offsets(s, coord_system, offset, flag) ==
    IF coord_system < G54 \/ coord_system > COORD_SYSTEM_MAX
    THEN [s |-> s, status |-> STAT_INTERNAL_RANGE_ERROR]
    ELSE [s |-> WriteCoordOffsets(s, coord_system, offset, flag), status |-> STAT_OK]

cm_set_coord_system(s, coord_system) ==
    mp_queue_command([s EXCEPT !.gm.coord_system = coord_system],
                     "_exec_offset", coord_system, 0)

\* G92 with the stored offsets of all axes overwritten, flagged or not
cm_set_origin_offsets_all_axes(s, offset, flag) ==
    LET s1 == [s EXCEPT !.gm.origin_offset_enable = 1,
                        !.gm.origin_offset =
                            [i \in Axis |-> s.gm.position[i]
                                            - s.cfg.offset[s.gm.coord_system][i]
                                            - _to_millimeters(s, offset[i])]]
    IN  mp_queue_command(s1, "_exec_offset", s1.gm.coord_system, 0)

cm_set_origin_offsets(s, offset, flag) ==
    LET s1 == [s EXCEPT !.gm.origin_offset_enable = 1,
                        !.gm.origin_offset =
                            [i \in Axis |->
                                IF fp_TRUE(flag[i])
                                THEN s.gm.position[i]
                                     - s.cfg.offset[s.gm.coord_system][i]
                                     - _to_millimeters(s, offset[i])
                                ELSE s.gm.origin_offset[i]]]
    IN  mp_queue_command(s1, "_exec_offset", s1.gm.coord_system, 0)

cm_reset_origin_offsets(s) ==
    LET s1 == [s EXCEPT !.gm.origin_offset_enable = 0,
                        !.gm.origin_offset = ZeroVec]
    IN  mp_queue_command(s1, "_exec_offset", s1.gm.coord_system, 0)

\* G92.2 that forgets the stored offsets, as G92.1 does
cm_suspend_origin_offsets_forgetful(s) == cm_reset_origin_offsets(s)

cm_suspend_origin_offsets(s) ==
    mp_queue_command([s EXCEPT !.gm.origin_offset_enable = 0],
                     "_exec_offset", s.gm.coord_system, 0)

cm_resume_origin_offsets(s) ==
    mp_queue_command([s EXCEPT !.gm.origin_offset_enable = 1],
                     "_exec_offset", s.gm.coord_system, 0)

cm_select_plane(s, plane) ==
    [s EXCEPT !.gm.select_plane = plane,
              !.gm.plane_axis_0 = IF plane = CANON_PLANE_YZ THEN AXIS_Y ELSE AXIS_X,
              !.gm.plane_axis_1 = IF plane \in {CANON_PLANE_YZ, CANON_PLANE_XZ}
                                  THEN AXIS_Z ELSE AXIS_Y,
              !.gm.plane_axis_2 = IF plane = CANON_PLANE_YZ THEN AXIS_X
                                  ELSE IF plane = CANON_PLANE_XZ THEN AXIS_Y
                                  ELSE AXIS_Z]

cm_set_units_mode(s, mode) == [s EXCEPT !.gm.units_mode = mode]

cm_set_distance_mode(s, mode) == [s EXCEPT !.gm.distance_mode = mode]

cm_set_path_control(s, mode) == [s EXCEPT !.gm.path_control = mode]

cm_set_inverse_feed_rate_mode(s, mode) ==
    [s EXCEPT !.gm.inverse_feed_rate_mode = mode]

cm_set_feed_rate(s, feed_rate) ==
    IF s.gm.inverse_feed_rate_mode = TRUE
    THEN [s EXCEPT !.gm.inverse_feed_rate = feed_rate]
    ELSE [s EXCEPT !.gm.feed_rate = _to_millimeters(s, feed_rate)]

\* the override setters; gf and gn are the parser's flags and values of the
\* block being read
cm_override_enables(s, flag) ==
    [s EXCEPT !.gm.feed_rate_override_enable = flag,
              !.gm.traverse_override_enable = flag,
              !.gm.spindle_override_enable = flag]

cm_feed_rate_override_enable(s, flag, gf, gn) ==
    [s EXCEPT !.gm.feed_rate_override_enable =
                  IF fp_TRUE(gf.parameter) /\ fp_ZERO(gn.parameter) THEN 0 ELSE 1]

\* a plausible slip: the call replanning the queue, commented out in the
\* source, brought back
cm_feed_rate_override_factor_replanning(s, flag, gn) ==
    [s EXCEPT !.gm.feed_rate_override_enable = flag,
              !.gm.feed_rate_override_factor = gn.parameter,
              !.mb = [k \in 1..Len(@) |->
                         IF @[k].move_type = MOVE_TYPE_ALINE
                         THEN [@[k] EXCEPT !.time.n = 2 * @] ELSE @[k]]]

cm_feed_rate_override_factor(s, flag, gn) ==
    [s EXCEPT !.gm.feed_rate_override_enable = flag,
              !.gm.feed_rate_override_factor = gn.parameter]

cm_traverse_override_enable(s, flag, gf, gn) ==
    [s EXCEPT !.gm.traverse_override_enable =
                  IF fp_TRUE(gf.parameter) /\ fp_ZERO(gn.parameter) THEN 0 ELSE 1]

cm_traverse_override_factor(s, flag, gn) ==
    [s EXCEPT !.gm.traverse_override_enable = flag,
              !.gm.traverse_override_factor = gn.parameter]

cm_spindle_override_enable(s, flag, gf, gn) ==
    [s EXCEPT !.gm.spindle_override_enable =
                  IF fp_TRUE(gf.parameter) /\ fp_ZERO(gn.parameter) THEN 0 ELSE 1]

cm_spindle_override_factor(s, flag, gn) ==
    [s EXCEPT !.gm.spindle_override_enable = flag,
              !.gm.spindle_override_factor = gn.parameter]

_exec_change_tool(s, tool, float_val) == [s EXCEPT !.gm.tool = tool]

cm_change_tool(s, tool) == mp_queue_command(s, "_exec_change_tool", tool, 0)

_exec_select_tool(s, tool, float_val) == [s EXCEPT !.gm.tool = tool]

cm_select_tool(s, tool) == mp_queue_command(s, "_exec_select_tool", tool, 0)

_exec_mist_coolant_control(s, mist_coolant, float_val) ==
    [s EXCEPT !.gm.mist_coolant = mist_coolant]

\* a plausible slip: M9 switching off the flood coolant only
_exec_flood_coolant_control_flood_only(s, flood_coolant, float_val) ==
    [s EXCEPT !.gm.flood_coolant = flood_coolant]

_exec_flood_coolant_control(s, flood_coolant, float_val) ==
    IF flood_coolant = TRUE
    THEN [s EXCEPT !.gm.flood_coolant = flood_coolant]
    ELSE _exec_mist_coolant_control([s EXCEPT !.gm.flood_coolant = flood_coolant],
                                    FALSE, 0)

cm_mist_coolant_control(s, mist_coolant) ==
    mp_queue_command(s, "_exec_mist_coolant_control", mist_coolant, 0)

cm_flood_coolant_control(s, flood_coolant) ==
    mp_queue_command(s, "_exec_flood_coolant_control", flood_coolant, 0)

(***************************************************************************)
(* spindle.cpp                                                             *)
(***************************************************************************)
_exec_spindle_control(s, spindle_mode, f) == cm_set_spindle_mode(s, spindle_mode)

\* a plausible slip: the spindle mode is set at call time instead of queued
cm_spindle_control_immediate(s, spindle_mode) ==
    LET id == Len(s.hist.qlog) + 1
    IN  [_exec_spindle_control(s, spindle_mode, 0)
            EXCEPT !.hist.qlog = Append(@, MOVE_TYPE_COMMAND),
                   !.hist.xlog = Append(@, <<"cmd", id>>)]

cm_spindle_control(s, spindle_mode) ==
    mp_queue_command(s, "_exec_spindle_control", spindle_mode, 0)

_exec_spindle_speed(s, i, speed) == cm_set_spindle_speed_parameter(s, speed)

cm_set_spindle_speed(s, speed) == mp_queue_command(s, "_exec_spindle_speed", 0, speed)

\* M2 with the G92 offsets suspended, not reset
cm_program_end_suspending(s) ==
    LET s1 == cm_suspend_origin_offsets(s)
        s2 == cm_set_coord_system(s1, s.cfg.coord_system)
        s3 == cm_select_plane(s2, s.cfg.select_plane)
        s4 == cm_set_distance_mode(s3, s.cfg.distance_mode)
        s5 == cm_set_units_mode(s4, s.cfg.units_mode)
        s6 == cm_spindle_control(s5, SPINDLE_OFF)
        s7 == cm_flood_coolant_control(s6, FALSE)
        s8 == cm_set_inverse_feed_rate_mode(s7, FALSE)
        s9 == cm_set_motion_mode(s8, MOTION_MODE_CANCEL_MOTION_MODE)
    IN  mp_queue_command(s9, "_program_finalize", MACHINE_PROGRAM_END, 0)

cm_program_end(s) ==
    LET s1 == cm_reset_origin_offsets(s)
        s2 == cm_set_coord_system(s1, s.cfg.coord_system)
        s3 == cm_select_plane(s2, s.cfg.select_plane)
        s4 == cm_set_distance_mode(s3, s.cfg.distance_mode)
        s5 == cm_set_units_mode(s4, s.cfg.units_mode)
        s6 == cm_spindle_control(s5, SPINDLE_OFF)
        s7 == cm_flood_coolant_control(s6, FALSE)
        s8 == cm_set_inverse_feed_rate_mode(s7, FALSE)
        s9 == cm_set_motion_mode(s8, MOTION_MODE_CANCEL_MOTION_MODE)
    IN  mp_queue_command(s9, "_program_finalize", MACHINE_PROGRAM_END, 0)

\* the planner's dispatch of a command block's callback
RunCallback(s, b) ==
    CASE b.cm_exec = "_exec_offset" -> _exec_offset(s, b.int_val, b.float_val)
      [] b.cm_exec = "_exec_change_tool" -> _exec_change_tool(s, b.int_val, b.float_val)
      [] b.cm_exec = "_exec_select_tool" -> _exec_select_tool(s, b.int_val, b.float_val)
      [] b.cm_exec = "_exec_mist_coolant_control" ->
             _exec_mist_coolant_control(s, b.int_val, b.float_val)
      [] b.cm_exec = "_exec_flood_coolant_control" ->
             _exec_flood_coolant_control(s, b.int_val, b.float_val)
      [] b.cm_exec = "_exec_spindle_control" ->
             _exec_spindle_control(s, b.int_val, b.float_val)
      [] b.cm_exec = "_exec_spindle_speed" ->
             _exec_spindle_speed(s, b.int_val, b.float_val)
      [] b.cm_exec = "_program_finalize" -> _program_finalize(s, b.int_val, b.float_val)

(***************************************************************************)
(* canonical_machine.cpp: initialization, alarm, motion                    *)
(***************************************************************************)
ZeroedCm ==
    [machine_state |-> MACHINE_INITIALIZING, cycle_state |-> CYCLE_OFF,
     motion_state |-> MOTION_STOP, hold_state |-> FEEDHOLD_OFF,
     combined_state |-> MACHINE_INITIALIZING,
     feedhold_requested |-> FALSE, queue_flush_requested |-> FALSE,
     cycle_start_requested |-> FALSE, g10_persist_flag |-> FALSE]

ZeroedGm ==
    [position |-> ZeroVec, target |-> ZeroVec, work_offset |-> ZeroVec,
     min_time |-> Rat(0, 1),
     units_mode |-> INCHES, distance_mode |-> ABSOLUTE_MODE,
     coord_system |-> G53, absolute_override |-> FALSE,
     origin_offset |-> ZeroVec, origin_offset_enable |-> 0,
     select_plane |-> CANON_PLANE_XY, plane_axis_0 |-> AXIS_X,
     plane_axis_1 |-> AXIS_Y, plane_axis_2 |-> AXIS_Z,
     motion_mode |-> MOTION_MODE_STRAIGHT_TRAVERSE,
     feed_rate |-> 0, inverse_feed_rate_mode |-> FALSE, inverse_feed_rate |-> 0,
     path_control |-> PATH_EXACT_PATH,
     spindle_mode |-> SPINDLE_OFF, spindle_speed |-> 0,
     mist_coolant |-> FALSE, flood_coolant |-> FALSE, tool |-> 0,
     g28_position |-> ZeroVec, g30_position |-> ZeroVec,
     feed_rate_override_enable |-> 0, feed_rate_override_factor |-> 0,
     traverse_override_enable |-> 0, traverse_override_factor |-> 0,
     spindle_override_enable |-> 0, spindle_override_factor |-> 0,
     block_delete_switch |-> FALSE]

canonical_machine_init(s) ==
    LET s0 == [s EXCEPT !.cm = ZeroedCm, !.gm = ZeroedGm]
        s1 == cm_set_units_mode(s0, s.cfg.units_mode)
        s2 == cm_set_coord_system(s1, s.cfg.coord_system)
        s3 == cm_select_plane(s2, s.cfg.select_plane)
        s4 == cm_set_path_control(s3, s.cfg.path_control)
        s5 == cm_set_distance_mode(s4, s.cfg.distance_mode)
    IN  [s5 EXCEPT !.gm.block_delete_switch = TRUE,
                   !.gm.motion_mode = MOTION_MODE_CANCEL_MOTION_MODE,
                   !.cm.machine_state = MACHINE_READY,
                   !.cm.combined_state = COMBINED_READY,
                   !.hist.alarmed = FALSE]

\* lines 149-161: the value is the result, left in cm.combined_state as well;
\* in a cycle none of the five tests need match, and the field is then
\* returned as it was
cm_get_combined_state(s) ==
    LET c0 == s.cm.combined_state
        c1 == IF s.cm.motion_state = MOTION_RUN THEN COMBINED_RUN ELSE c0
        c2 == IF s.cm.motion_state = MOTION_HOLD THEN COMBINED_HOLD ELSE c1
        c3 == IF s.cm.cycle_state = CYCLE_HOMING THEN COMBINED_HOMING ELSE c2
        c4 == IF s.cm.cycle_state = CYCLE_PROBE THEN COMBINED_PROBE ELSE c3
        c5 == IF s.cm.cycle_state = CYCLE_JOG THEN COMBINED_JOG ELSE c4
        value == IF s.cm.machine_state = MACHINE_CYCLE THEN c5
                 ELSE s.cm.machine_state
    IN  [s |-> [s EXCEPT !.cm.combined_state = value], value |-> value]

cm_alarm(s, value) ==
    LET s1 == cm_spindle_control(st_disable(s), SPINDLE_OFF)
    IN  [s1 EXCEPT !.cm.machine_state = MACHINE_ALARM,
                   !.hist.alarmed = TRUE]

\* marks a call that returned before reaching MP_LINE
NotCalled == "not called"

\* the part of a motion call after the target is known to differ from the
\* position.  MP_LINE is handed gm.min_time in the same argument list that
\* writes it (an unspecified order); the planner block of the specification
\* keeps no minimum time, so the value handed over is not stored.
SubmitLine(s) ==
    LET s1 == cm_cycle_start(s)
        t  == _get_move_times(s1)
        wo == cm_get_coord_offset_vector(s1)
        s2 == [s1 EXCEPT !.gm.min_time = t.min_time, !.gm.work_offset = wo]
        r  == mp_aline(s2, s2.gm.target, t.optimal, wo)
    IN  [s |-> cm_set_gcode_model_endpoint_position(r.s, r.status),
         status |-> r.status, planner |-> r.status]

\* the cycle started ahead of the zero-distance test
cm_straight_traverse_started(s, target, flags) ==
    LET s1 == cm_set_target([s EXCEPT !.gm.motion_mode = MOTION_MODE_STRAIGHT_TRAVERSE],
                            target, flags)
    IN  IF vector_equal(s1.gm.target, s1.gm.position)
        THEN [s |-> cm_cycle_start(s1), status |-> STAT_OK, planner |-> NotCalled]
        ELSE SubmitLine(s1)

cm_straight_traverse(s, target, flags) ==
    LET s1 == cm_set_target([s EXCEPT !.gm.motion_mode = MOTION_MODE_STRAIGHT_TRAVERSE],
                            target, flags)
    IN  IF vector_equal(s1.gm.target, s1.gm.position)
        THEN [s |-> s1, status |-> STAT_OK, planner |-> NotCalled]
        ELSE SubmitLine(s1)

\* the zero feed rate trapped only after the target has been resolved
cm_straight_feed_target_first(s, target, flags) ==
    LET s1 == cm_set_target([s EXCEPT !.gm.motion_mode = MOTION_MODE_STRAIGHT_FEED],
                            target, flags)
    IN  IF s1.gm.inverse_feed_rate_mode = FALSE /\ fp_ZERO(s1.gm.feed_rate)
        THEN [s |-> s1, status |-> STAT_GCODE_FEEDRATE_ERROR, planner |-> NotCalled]
        ELSE IF vector_equal(s1.gm.target, s1.gm.position)
        THEN [s |-> s1, status |-> STAT_OK, planner |-> NotCalled]
        ELSE SubmitLine(s1)

cm_straight_feed(s, target, flags) ==
    LET s0 == [s EXCEPT !.gm.motion_mode = MOTION_MODE_STRAIGHT_FEED]
    IN  IF s0.gm.inverse_feed_rate_mode = FALSE /\ fp_ZERO(s0.gm.feed_rate)
        THEN [s |-> s0, status |-> STAT_GCODE_FEEDRATE_ERROR, planner |-> NotCalled]
        ELSE LET s1 == cm_set_target(s0, target, flags)
             IN  IF vector_equal(s1.gm.target, s1.gm.position)
                 THEN [s |-> s1, status |-> STAT_OK, planner |-> NotCalled]
                 ELSE SubmitLine(s1)

cm_set_g28_position(s) == [s EXCEPT !.gm.g28_position = copy_axis_vector(s.gm.position)]

cm_set_g30_position(s) == [s EXCEPT !.gm.g30_position = copy_axis_vector(s.gm.position)]

AllFlags == [i \in Axis |-> 1]

\* cm_goto_g28_position / cm_goto_g30_position up to the busy-wait
goto_intermediate(s, target, flags) ==
    cm_straight_traverse(cm_set_absolute_override(s, TRUE), target, flags)

\* ... and after it
goto_g28_final(s) == cm_straight_traverse(s, s.gm.g28_position, AllFlags)

goto_g30_final(s) == cm_straight_traverse(s, s.gm.g30_position, AllFlags)

(***************************************************************************)
(* canonical_machine.cpp: feedhold, queue flush, cycle start               *)
(***************************************************************************)
cm_request_feedhold(s) == [s EXCEPT !.cm.feedhold_requested = TRUE]

cm_request_queue_flush(s) == [s EXCEPT !.cm.queue_flush_requested = TRUE]

cm_request_cycle_start(s) == [s EXCEPT !.cm.cycle_start_requested = TRUE]

cm_flush_planner_target_only(s) ==
    LET s1 == mp_flush_planner(s)
    IN  [s1 EXCEPT !.gm.target = [i \in Axis |-> mp_get_runtime_machine_position(s1, i)]]

cm_flush_planner(s) ==
    LET s1 == mp_flush_planner(s)
        rt == [i \in Axis |-> mp_get_runtime_machine_position(s1, i)]
    IN  [s1 EXCEPT !.mm.position = rt,
                   !.gm.position = rt,
                   !.gm.target = rt]

FeedholdStep_sticky(s) ==
    IF s.cm.feedhold_requested = TRUE
       /\ s.cm.motion_state = MOTION_RUN /\ s.cm.hold_state = FEEDHOLD_OFF
    THEN [s EXCEPT !.cm.motion_state = MOTION_HOLD,
                   !.cm.hold_state = FEEDHOLD_SYNC,
                   !.cm.feedhold_requested = FALSE]
    ELSE s

FeedholdStep(s) ==
    IF s.cm.feedhold_requested = TRUE
    THEN IF s.cm.motion_state = MOTION_RUN /\ s.cm.hold_state = FEEDHOLD_OFF
         THEN [s EXCEPT !.cm.motion_state = MOTION_HOLD,
                        !.cm.hold_state = FEEDHOLD_SYNC,
                        !.cm.feedhold_requested = FALSE]
         ELSE [s EXCEPT !.cm.feedhold_requested = FALSE]
    ELSE s

QueueFlushStep_any_hold(s) ==
    IF s.cm.queue_flush_requested = TRUE
       /\ (s.cm.motion_state = MOTION_STOP \/ s.cm.motion_state = MOTION_HOLD)
    THEN cm_flush_planner([s EXCEPT !.cm.queue_flush_requested = FALSE])
    ELSE s

QueueFlushStep(s) ==
    IF s.cm.queue_flush_requested = TRUE
       /\ (s.cm.motion_state = MOTION_STOP
           \/ (s.cm.motion_state = MOTION_HOLD /\ s.cm.hold_state = FEEDHOLD_HOLD))
    THEN cm_flush_planner([s EXCEPT !.cm.queue_flush_requested = FALSE])
    ELSE s

\* line 1127 with the pending flush ignored
CycleStartTaken_unguarded(s) == s.cm.cycle_start_requested = TRUE

\* line 1127
CycleStartTaken(s) ==
    s.cm.cycle_start_requested = TRUE /\ s.cm.queue_flush_requested = FALSE

\* lines 1128-1130: the request is taken and the hold marked as ending
CycleStartHonour(s) ==
    IF CycleStartTaken(s)
    THEN cm_cycle_start([s EXCEPT !.cm.cycle_start_requested = FALSE,
                                  !.cm.hold_state = FEEDHOLD_END_HOLD])
    ELSE s

\* lines 1127-1132
CycleStartStep(s) ==
    IF CycleStartTaken(s) THEN mp_end_hold(CycleStartHonour(s)) ELSE s

\* the cycle start looked at ahead of the queue flush
cm_feedhold_sequencing_callback_start_first(s) ==
    QueueFlushStep(CycleStartStep(FeedholdStep(s)))

cm_feedhold_sequencing_callback(s) == CycleStartStep(QueueFlushStep(FeedholdStep(s)))

(***************************************************************************)
(* The runtime's consumption of the ring (exec context).  plan_exec is not *)
(* part of the sources: blocks are executed from the head of the ring in   *)
(* insertion order, a command block by firing its callback, a line by      *)
(* running it to its target; a feedhold in SYNC decelerates the running    *)
(* line to a stop short of its target.                                     *)
(***************************************************************************)
\* free the head of the ring; the cycle ends when the ring runs empty
mp_free_run_buffer(s) ==
    LET s1 == [s EXCEPT !.mb = Tail(@), !.mr.running = FALSE]
    IN  IF Len(s1.mb) = 0 THEN cm_cycle_end(s1) ELSE s1

exec_command(s) ==
    LET b == Head(s.mb)
        s1 == RunCallback(s, b)
    IN  mp_free_run_buffer([s1 EXCEPT !.hist.xlog = Append(@, <<"cmd", b.id>>)])

exec_aline_start(s) ==
    [s EXCEPT !.mr.running = TRUE,
              !.mr.braked = FALSE,
              !.cm.motion_state = IF @ = MOTION_STOP THEN MOTION_RUN ELSE @,
              !.hist.xlog = Append(@, <<"start", Head(s.mb).id>>)]

exec_aline_end(s) ==
    LET b == Head(s.mb)
    IN  mp_free_run_buffer([s EXCEPT !.mr.position = b.target,
                                     !.mr.work_offset = b.work_offset,
                                     !.hist.xlog = Append(@, <<"end", b.id>>)])

exec_hold_sync(s) == [s EXCEPT !.cm.hold_state = FEEDHOLD_DECEL]

\* the deceleration ends part-way along the running line; a line that was
\* held before stops where it stands
exec_hold_decel(s) ==
    LET b == Head(s.mb)
    IN  [s EXCEPT !.cm.hold_state = FEEDHOLD_HOLD,
                  !.mr.braked = TRUE,
                  !.mr.position = IF s.mr.braked THEN @
                                  ELSE [i \in Axis |-> (@[i] + b.target[i]) \div 2]]

(***************************************************************************)
(* plan_zoid.cpp: the trapezoid of one planner block.                      *)
(*                                                                         *)
(* Velocities are whole mm/min and times are half microseconds, so a       *)
(* length is counted in units of 1/120000000 mm and every length the       *)
(* function handles is an even number of units: the halvings of the code   *)
(* are then exact, as they are in floating point.  A block carries the     *)
(* jerk as sqrt_recip_jerk, the square root of recip_jerk in half          *)
(* microseconds per sqrt(mm/min); cbrt_jerk is the same jerk, so           *)
(* L^(2/3) * cbrt_jerk is the cube root of (L / sqrt_recip_jerk)^2.        *)
(* planner.h is not part of the sources: the segment times and the         *)
(* tolerances are those the specification names.                           *)
(***************************************************************************)
NOM_SEGMENT_TIME == 10000

MIN_SEGMENT_TIME_PLUS_MARGIN == 5002

\* a - b < TRAPEZOID_VELOCITY_TOLERANCE, which is max(2, entry_velocity/100)
WithinVelocityTolerance(d, entry_velocity) == d < 2 \/ 100 * d < entry_velocity

\* |a - b| / b > TRAPEZOID_ITERATION_ERROR_PERCENT, which is 0.10
OutsideIterationError(a, b) == 10 * fabs(a - b) > b

\* floor of the cube root, by bisection on [lo, hi]
RECURSIVE CbrtSearch(_, _, _)
CbrtSearch(x, lo, hi) ==
    IF lo >= hi THEN lo
    ELSE LET mid == (lo + hi + 1) \div 2
         IN  IF mid * mid * mid <= x THEN CbrtSearch(x, mid, hi)
                                     ELSE CbrtSearch(x, lo, mid - 1)

cbrt(x) == CbrtSearch(x, 0, min(x, 1290))

\* a length rounded down to a whole even number of units
Even(x) == 2 * (x \div 2)

MIN_HEAD_LENGTH(b) == MIN_SEGMENT_TIME_PLUS_MARGIN * (b.cruise_velocity + b.entry_velocity)

MIN_TAIL_LENGTH(b) == MIN_SEGMENT_TIME_PLUS_MARGIN * (b.cruise_velocity + b.exit_velocity)

MIN_BODY_LENGTH(b) == MIN_SEGMENT_TIME_PLUS_MARGIN * b.cruise_velocity

mp_get_target_length(Vi, Vt, b) ==
    (Vi + Vt) * ((b.sqrt_recip_jerk * sqrt(10000 * fabs(Vt - Vi))) \div 100)

mp_get_target_velocity(Vi, L, b) == cbrt(square(L \div b.sqrt_recip_jerk)) + Vi

\* lines 149-161: B" and F, a single body segment.  A zero cruise velocity
\* makes the move time infinite, which is not below NOM_SEGMENT_TIME.
IsSingleSegment(b) == b.length <= NOM_SEGMENT_TIME * b.cruise_velocity

SingleSegment(b) ==
    LET forced == b.length < MIN_SEGMENT_TIME_PLUS_MARGIN * b.cruise_velocity
        cruise == IF forced THEN b.length \div MIN_SEGMENT_TIME_PLUS_MARGIN
                            ELSE b.cruise_velocity
    IN  [b EXCEPT !.cruise_velocity = cruise,
                  !.exit_velocity = max(0, min(cruise, b.entry_velocity - b.delta_vmax)),
                  !.body_length = b.length,
                  !.head_length = 0,
                  !.tail_length = 0,
                  !.path = IF forced THEN "F" ELSE "B2"]

\* lines 166-172: B, the velocities match
IsBodyOnly(b) ==
    /\ WithinVelocityTolerance(b.cruise_velocity - b.entry_velocity, b.entry_velocity)
    /\ WithinVelocityTolerance(b.cruise_velocity - b.exit_velocity, b.entry_velocity)

BodyOnly(b) ==
    [b EXCEPT !.body_length = b.length, !.head_length = 0, !.tail_length = 0,
              !.path = "B"]

\* line 181
IsShort(b) ==
    b.length <= MIN_HEAD_LENGTH(b) + MIN_BODY_LENGTH(b) + MIN_TAIL_LENGTH(b)

\* the degraded exit velocity of lines 187 and 200
DegradedExit(b) ==
    max(0, b.length \div MIN_SEGMENT_TIME_PLUS_MARGIN - b.entry_velocity)

\* the tail-only case with the cruise velocity taken from the wrong end
TailOnly_cruise_exit(b) ==
    LET degraded == b.length < MIN_TAIL_LENGTH(b)
        exit == IF degraded THEN DegradedExit(b) ELSE b.exit_velocity
    IN  [b EXCEPT !.exit_velocity = exit,
                  !.cruise_velocity = exit,
                  !.tail_length = b.length,
                  !.head_length = 0,
                  !.path = IF degraded THEN "T2" ELSE "T1"]

\* lines 183-193: T' and T"
TailOnly(b) ==
    LET degraded == b.length < MIN_TAIL_LENGTH(b)
    IN  [b EXCEPT !.exit_velocity = IF degraded THEN DegradedExit(b) ELSE @,
                  !.cruise_velocity = b.entry_velocity,
                  !.tail_length = b.length,
                  !.head_length = 0,
                  !.path = IF degraded THEN "T2" ELSE "T1"]

\* the head-only case with the cruise velocity taken from the wrong end
HeadOnly_cruise_entry(b) ==
    LET degraded == b.length < MIN_HEAD_LENGTH(b)
    IN  [b EXCEPT !.exit_velocity = IF degraded THEN DegradedExit(b) ELSE @,
                  !.cruise_velocity = b.entry_velocity,
                  !.head_length = b.length,
                  !.tail_length = 0,
                  !.path = IF degraded THEN "H2" ELSE "H1"]

\* lines 196-206: H' and H"
HeadOnly(b) ==
    LET degraded == b.length < MIN_HEAD_LENGTH(b)
        exit == IF degraded THEN DegradedExit(b) ELSE b.exit_velocity
    IN  [b EXCEPT !.exit_velocity = exit,
                  !.cruise_velocity = exit,
                  !.head_length = b.length,
                  !.tail_length = 0,
                  !.path = IF degraded THEN "H2" ELSE "H1"]

\* lines 211-214
SetHeadAndTail(b) ==
    LET head == mp_get_target_length(b.entry_velocity, b.cruise_velocity, b)
        tail == mp_get_target_length(b.exit_velocity, b.cruise_velocity, b)
    IN  [b EXCEPT !.head_length = max(head, MIN_HEAD_LENGTH(b)),
                  !.tail_length = max(tail, MIN_TAIL_LENGTH(b))]

\* the symmetric case with the cruise velocity not held to cruise_vmax
Symmetric_unlimited(b) ==
    LET head == b.length \div 2
        b1 == [b EXCEPT !.head_length = head,
                        !.tail_length = head,
                        !.cruise_velocity =
                            mp_get_target_velocity(b.entry_velocity, head, b),
                        !.path = "HT"]
        average == (b1.entry_velocity + b1.cruise_velocity) \div 2
    IN  IF b1.head_length < MIN_HEAD_LENGTH(b1)
        THEN [b1 EXCEPT !.body_length = b.length,
                        !.head_length = 0,
                        !.tail_length = 0,
                        !.cruise_velocity = average,
                        !.entry_velocity = average,
                        !.exit_velocity = average,
                        !.path = "HT-B"]
        ELSE b1

\* lines 220-237: the symmetric rate-limited case
Symmetric(b) ==
    LET head == b.length \div 2
        b1 == [b EXCEPT !.head_length = head,
                        !.tail_length = head,
                        !.cruise_velocity =
                            min(b.cruise_vmax,
                                mp_get_target_velocity(b.entry_velocity, head, b)),
                        !.path = "HT"]
        average == (b1.entry_velocity + b1.cruise_velocity) \div 2
    IN  IF b1.head_length < MIN_HEAD_LENGTH(b1)
        THEN [b1 EXCEPT !.body_length = b.length,
                        !.head_length = 0,
                        !.tail_length = 0,
                        !.cruise_velocity = average,
                        !.entry_velocity = average,
                        !.exit_velocity = average,
                        !.path = "HT-B"]
        ELSE b1

\* the share of the block's length given to the longer of head and tail
Share(part, b) == Even(MulDiv(part, b.length, b.head_length + b.tail_length).q)

\* lines 244-254: one pass of the do-while body; computed_velocity is kept
\* in the block record between passes
IterationPass(b) ==
    LET b1 == [b EXCEPT !.cruise_velocity = b.computed_velocity]
        b2 == [b1 EXCEPT
                 !.head_length = mp_get_target_length(b1.entry_velocity, b1.cruise_velocity, b1),
                 !.tail_length = mp_get_target_length(b1.exit_velocity, b1.cruise_velocity, b1)]
    IN  IF b2.head_length > b2.tail_length
        THEN LET head == Share(b2.head_length, b2)
             IN  [b2 EXCEPT !.head_length = head,
                            !.computed_velocity =
                                mp_get_target_velocity(b2.entry_velocity, head, b2)]
        ELSE LET tail == Share(b2.tail_length, b2)
             IN  [b2 EXCEPT !.tail_length = tail,
                            !.computed_velocity =
                                mp_get_target_velocity(b2.exit_velocity, tail, b2)]

\* lines 243-256: the do-while; the code has no iteration trap, so a run
\* that has not converged after MaxIter passes is recorded as not returned
RECURSIVE Iterate(_, _)
Iterate(b, n) ==
    LET b1 == [IterationPass(b) EXCEPT !.passes = n]
    IN  IF OutsideIterationError(b1.cruise_velocity, b1.computed_velocity)
        THEN IF n >= MaxIter THEN [b1 EXCEPT !.returned = FALSE]
                             ELSE Iterate(b1, n + 1)
        ELSE b1

\* lines 259-270: the clean-up after the iteration
IterationCleanup(b) ==
    LET b1 == [b EXCEPT !.cruise_velocity = b.computed_velocity]
        head == mp_get_target_length(b1.entry_velocity, b1.cruise_velocity, b1)
        b2 == [b1 EXCEPT !.head_length = head, !.tail_length = b.length - head]
        b3 == IF b2.head_length < MIN_HEAD_LENGTH(b2)
              THEN [b2 EXCEPT !.tail_length = b.length, !.head_length = 0]
              ELSE b2
    IN  IF b3.tail_length < MIN_TAIL_LENGTH(b3)
        THEN [b3 EXCEPT !.head_length = b.length, !.tail_length = 0]
        ELSE b3

\* lines 242-271: the asymmetric rate-limited case
Asymmetric(b) ==
    LET b1 == Iterate([b EXCEPT !.computed_velocity = b.cruise_vmax,
                                !.path = "HT2"], 1)
    IN  IF b1.returned THEN IterationCleanup(b1) ELSE b1

\* the short body handed to the head only
RequestedFit_head_only(b) ==
    LET b1 == [b EXCEPT !.body_length = b.length - b.head_length - b.tail_length,
                        !.path = "fit"]
    IN  IF b1.body_length < MIN_BODY_LENGTH(b1) /\ fp_NOT_ZERO(b1.body_length)
        THEN [b1 EXCEPT !.head_length = @ + b1.body_length \div 2,
                        !.body_length = 0]
        ELSE b1

\* lines 274-296: the requested-fit cases
RequestedFit(b) ==
    LET b1 == [b EXCEPT !.body_length = b.length - b.head_length - b.tail_length,
                        !.path = "fit"]
    IN  IF b1.body_length < MIN_BODY_LENGTH(b1) /\ fp_NOT_ZERO(b1.body_length)
        THEN IF fp_NOT_ZERO(b1.head_length)
             THEN IF fp_NOT_ZERO(b1.tail_length)
                  THEN [b1 EXCEPT !.head_length = @ + b1.body_length \div 2,
                                  !.tail_length = @ + b1.body_length \div 2,
                                  !.body_length = 0]
                  ELSE [b1 EXCEPT !.head_length = @ + b1.body_length,
                                  !.body_length = 0]
             ELSE [b1 EXCEPT !.tail_length = @ + b1.body_length,
                             !.body_length = 0]
        ELSE IF fp_ZERO(b1.head_length) /\ fp_ZERO(b1.tail_length)
        THEN [b1 EXCEPT !.cruise_velocity = b1.entry_velocity]
        ELSE b1

\* lines 217-271
RateLimited(b) ==
    IF WithinVelocityTolerance(fabs(b.entry_velocity - b.exit_velocity), b.entry_velocity)
    THEN Symmetric(b)
    ELSE Asymmetric(b)

\* lines 180-296: what is left after the body-only cases
HeadAndTail(b) ==
    LET b0 == [b EXCEPT !.body_length = 0]
        b1 == SetHeadAndTail(b0)
    IN  IF IsShort(b0) /\ b0.entry_velocity > b0.exit_velocity THEN TailOnly(b0)
        ELSE IF IsShort(b0) /\ b0.entry_velocity < b0.exit_velocity THEN HeadOnly(b0)
        ELSE IF b1.length < b1.head_length + b1.tail_length THEN RateLimited(b1)
        ELSE RequestedFit(b1)

\* a plausible slip: the matching velocities tested ahead of the short block
mp_calculate_trapezoid_body_first(b) ==
    IF IsBodyOnly(b) THEN BodyOnly(b)
    ELSE IF IsSingleSegment(b) THEN SingleSegment(b)
    ELSE HeadAndTail(b)

mp_calculate_trapezoid(b) ==
    IF IsSingleSegment(b) THEN SingleSegment(b)
    ELSE IF IsBodyOnly(b) THEN BodyOnly(b)
    ELSE HeadAndTail(b)

(***************************************************************************)
(* Initial state: the state after canonical_machine_init on a configured   *)
(* machine with an empty planner.                                          *)
(***************************************************************************)
cfg_init ==
    [offset |-> [c \in G53..COORD_SYSTEM_MAX |->
                    IF c = G54 THEN [i \in Axis |-> IF i = AXIS_X THEN 10 ELSE 0]
                    ELSE IF c = G54 + 1 THEN [i \in Axis |-> IF i = AXIS_X THEN 20 ELSE 0]
                    ELSE ZeroVec],
     a |-> [i \in Axis |-> [axis_mode |-> AXIS_STANDARD,
                            feedrate_max |-> IF i <= AXIS_Z THEN 100 ELSE 50,
                            velocity_max |-> IF i <= AXIS_Z THEN 200 ELSE 100,
                            radius |-> 1]],
     units_mode |-> MILLIMETERS, coord_system |-> G54,
     select_plane |-> CANON_PLANE_XY, path_control |-> PATH_CONTINUOUS,
     distance_mode |-> ABSOLUTE_MODE]

PowerOn ==
    [cm |-> ZeroedCm, gm |-> ZeroedGm, cfg |-> cfg_init, mb |-> <<>>,
     mm |-> [position |-> ZeroVec, pool_size |-> PLANNER_BUFFER_POOL_SIZE],
     mr |-> [position |-> ZeroVec, work_offset |-> ZeroVec,
             running |-> FALSE, braked |-> FALSE, enabled |-> TRUE],
     hist |-> [qlog |-> <<>>, xlog |-> <<>>, flushed |-> {}, alarmed |-> FALSE,
               nflush |-> 0, first |-> STAT_OK]]

SeqNone ==
    [pre |-> ZeroedCm, fh |-> ZeroedCm, qf |-> ZeroedCm, flushed |-> FALSE,
     cs |-> ZeroedCm]

BfNone == [state |-> "none"]

CommitSeq(s, op, status, planner, trace) ==
    /\ cm' = s.cm
    /\ gm' = s.gm
    /\ cfg' = s.cfg
    /\ mb' = s.mb
    /\ mm' = s.mm
    /\ mr' = s.mr
    /\ hist' = s.hist
    /\ call' = [op |-> op, status |-> status, planner |-> planner]
    /\ seq' = trace

Commit(s, op, status, planner) == CommitSeq(s, op, status, planner, SeqNone)

\* a call whose record keeps more than its status: its arguments, its
\* result, or values of the model as they stood before it
CommitCall(s, c) ==
    /\ cm' = s.cm
    /\ gm' = s.gm
    /\ cfg' = s.cfg
    /\ mb' = s.mb
    /\ mm' = s.mm
    /\ mr' = s.mr
    /\ hist' = s.hist
    /\ call' = c
    /\ seq' = SeqNone

Init ==
    /\ LET s == canonical_machine_init(PowerOn)
       IN  /\ cm = s.cm
           /\ gm = s.gm
           /\ cfg = s.cfg
           /\ mb = s.mb
           /\ mm = s.mm
           /\ mr = s.mr
           /\ hist = s.hist
    /\ main = "idle"
    /\ call = [op |-> "canonical_machine_init", status |-> STAT_OK, planner |-> NotCalled]
    /\ seq = SeqNone
    /\ bf = BfNone

(***************************************************************************)
(* Inputs: pairs of a target vector and its axis flags, in input units     *)
(***************************************************************************)
Vec(x, a) == [i \in Axis |-> IF i = AXIS_X THEN x ELSE IF i = AXIS_A THEN a ELSE 0]

\* X10 and X12 lie closer together than MIN_LENGTH_MOVE
MotionInputs == {<<Vec(10, 0), Vec(1, 0)>>, <<Vec(12, 0), Vec(1, 0)>>,
                 <<Vec(60, 40), Vec(1, 1)>>}

FewInputs == {<<Vec(10, 0), Vec(1, 0)>>, <<Vec(60, 40), Vec(1, 1)>>}

FeedInputs == {0, 100}

TargetInRange(s) == \A i \in Axis : fabs(s.gm.target[i]) <= MaxPos

\* the run stays within MaxBlocks blocks handed to the planner
Room(s) == Len(s.hist.qlog) <= MaxBlocks

(***************************************************************************)
(* Actions of the main context                                             *)
(***************************************************************************)
StraightFeed ==
    /\ main = "idle"
    /\ \E in \in MotionInputs :
          LET r == cm_straight_feed(St, in[1], in[2])
          IN  /\ TargetInRange(r.s) /\ Room(r.s)
              /\ Commit(r.s, "cm_straight_feed", r.status, r.planner)
    /\ UNCHANGED <<main, bf>>

StraightTraverse ==
    /\ main = "idle"
    /\ \E in \in MotionInputs :
          LET r == cm_straight_traverse(St, in[1], in[2])
          IN  /\ TargetInRange(r.s) /\ Room(r.s)
              /\ Commit(r.s, "cm_straight_traverse", r.status, r.planner)
    /\ UNCHANGED <<main, bf>>

\* the same call on fewer inputs
Traverse ==
    /\ main = "idle"
    /\ \E in \in FewInputs :
          LET r == cm_straight_traverse(St, in[1], in[2])
          IN  /\ TargetInRange(r.s) /\ Room(r.s)
              /\ Commit(r.s, "cm_straight_traverse", r.status, r.planner)
    /\ UNCHANGED <<main, bf>>

SetFeedRate ==
    /\ main = "idle"
    /\ \E f \in FeedInputs :
          CommitCall(cm_set_feed_rate(St, f),
                     [op |-> "cm_set_feed_rate", status |-> STAT_OK,
                      planner |-> NotCalled, feed_rate |-> f])
    /\ UNCHANGED <<main, bf>>

\* cm_goto_g28_position up to its busy-wait for a planner buffer; hist.first
\* keeps the status of the first traverse, which the C code discards
GotoG28 ==
    /\ main = "idle"
    /\ \E in \in FewInputs :
          LET r == goto_intermediate(St, in[1], in[2])
          IN  /\ TargetInRange(r.s) /\ Len(r.s.hist.qlog) < MaxBlocks
              /\ Commit([r.s EXCEPT !.hist.first = r.status],
                        "goto_intermediate", r.status, r.planner)
    /\ main' = "g28_wait"
    /\ UNCHANGED bf

\* the busy-wait ends and the second traverse is made
GotoG28Final ==
    /\ main = "g28_wait"
    /\ mp_get_planner_buffers_available(St) # 0
    /\ LET r == goto_g28_final(St)
       IN  /\ TargetInRange(r.s)
           /\ Commit(r.s, "cm_goto_g28_position", r.status, r.planner)
    /\ main' = "idle"
    /\ UNCHANGED bf

GotoG30 ==
    /\ main = "idle"
    /\ \E in \in FewInputs :
          LET r == goto_intermediate(St, in[1], in[2])
          IN  /\ TargetInRange(r.s) /\ Len(r.s.hist.qlog) < MaxBlocks
              /\ Commit([r.s EXCEPT !.hist.first = r.status],
                        "goto_intermediate", r.status, r.planner)
    /\ main' = "g30_wait"
    /\ UNCHANGED bf

GotoG30Final ==
    /\ main = "g30_wait"
    /\ mp_get_planner_buffers_available(St) # 0
    /\ LET r == goto_g30_final(St)
       IN  /\ TargetInRange(r.s)
           /\ Commit(r.s, "cm_goto_g30_position", r.status, r.planner)
    /\ main' = "idle"
    /\ UNCHANGED bf

\* buffers of the small ring the busy-wait is studied on
WaitPoolSize == 2

\* the machine after canonical_machine_init, with a ring of WaitPoolSize
\* buffers, which two lines fill
InitWait ==
    /\ LET s == canonical_machine_init([PowerOn EXCEPT !.mm.pool_size = WaitPoolSize])
       IN  /\ cm = s.cm
           /\ gm = s.gm
           /\ cfg = s.cfg
           /\ mb = s.mb
           /\ mm = s.mm
           /\ mr = s.mr
           /\ hist = s.hist
    /\ main = "idle"
    /\ call = [op |-> "canonical_machine_init", status |-> STAT_OK, planner |-> NotCalled]
    /\ seq = SeqNone
    /\ bf = BfNone

SetG28Position ==
    /\ main = "idle"
    /\ Commit(cm_set_g28_position(St), "cm_set_g28_position", STAT_OK, NotCalled)
    /\ UNCHANGED <<main, bf>>

SetG30Position ==
    /\ main = "idle"
    /\ Commit(cm_set_g30_position(St), "cm_set_g30_position", STAT_OK, NotCalled)
    /\ UNCHANGED <<main, bf>>

SpindleControl ==
    /\ main = "idle"
    /\ mp_get_planner_buffers_available(St) # 0
    /\ \E m \in {SPINDLE_OFF, SPINDLE_CW} :
          LET s == cm_spindle_control(St, m)
          IN  Room(s) /\ Commit(s, "cm_spindle_control", STAT_OK, NotCalled)
    /\ UNCHANGED <<main, bf>>

SelectTool ==
    /\ main = "idle"
    /\ mp_get_planner_buffers_available(St) # 0
    /\ \E tool \in {1, 2} :
          LET s == cm_select_tool(St, tool)
          IN  Room(s) /\ Commit(s, "cm_select_tool", STAT_OK, NotCalled)
    /\ UNCHANGED <<main, bf>>

\* the homing, probe and jog cycles are driven from outside the canonical
\* machine; when one begins it marks itself in cycle_state
BeginCycle ==
    /\ main = "idle"
    /\ cm.cycle_state \in {CYCLE_OFF, CYCLE_STARTED}
    /\ \E c \in {CYCLE_HOMING, CYCLE_PROBE, CYCLE_JOG} :
          Commit([St EXCEPT !.cm.cycle_state = c], "begin_cycle", STAT_OK, NotCalled)
    /\ UNCHANGED <<main, bf>>

Alarm ==
    /\ ~hist.alarmed
    /\ LET s == cm_alarm(St, 0)
       IN  Room(s) /\ Commit(s, "cm_alarm", STAT_OK, NotCalled)
    /\ UNCHANGED <<main, bf>>

\* a reset: the only way out of an alarm
Reinit ==
    /\ main = "idle"
    /\ hist.alarmed
    /\ LET s == canonical_machine_init(St)
       IN  Room(s) /\ Commit(s, "canonical_machine_init", STAT_OK, NotCalled)
    /\ UNCHANGED <<main, bf>>

RequestFeedhold ==
    /\ ~cm.feedhold_requested
    /\ Commit(cm_request_feedhold(St), "request", STAT_OK, NotCalled)
    /\ UNCHANGED <<main, bf>>

RequestQueueFlush ==
    /\ ~cm.queue_flush_requested
    /\ Commit(cm_request_queue_flush(St), "request", STAT_OK, NotCalled)
    /\ UNCHANGED <<main, bf>>

RequestCycleStart ==
    /\ ~cm.cycle_start_requested
    /\ Commit(cm_request_cycle_start(St), "request", STAT_OK, NotCalled)
    /\ UNCHANGED <<main, bf>>

\* one pass of the main loop through the sequencing callback; seq keeps the
\* machine state as it stood after each of the three steps
SequencingCallback ==
    /\ main = "idle"
    /\ LET s1 == FeedholdStep(St)
           s2 == QueueFlushStep(s1)
           s3 == CycleStartHonour(s2)
       IN  CommitSeq(cm_feedhold_sequencing_callback(St),
                     "cm_feedhold_sequencing_callback", STAT_OK, NotCalled,
                     [pre |-> cm, fh |-> s1.cm, qf |-> s2.cm,
                      flushed |-> s2.hist.nflush # s1.hist.nflush, cs |-> s3.cm])
    /\ UNCHANGED <<main, bf>>

FlushPlanner ==
    /\ main = "idle"
    /\ Commit(cm_flush_planner(St), "cm_flush_planner", STAT_OK, NotCalled)
    /\ UNCHANGED <<main, bf>>

(***************************************************************************)
(* Actions of the main context: coordinate systems and origin offsets      *)
(***************************************************************************)
\* the run stays within MaxCommands blocks handed to the planner
CommandRoom(s) == Len(s.hist.qlog) <= MaxCommands

\* X40 from the G54 origin is machine position 50
OffsetMoves == {<<Vec(40, 0), Vec(1, 0)>>}

\* G92 words: X0, and X5 A10
OriginInputs == {<<Vec(0, 0), Vec(1, 0)>>, <<Vec(5, 10), Vec(1, 1)>>}

Move ==
    /\ main = "idle"
    /\ \E in \in OffsetMoves :
          LET r == cm_straight_traverse(St, in[1], in[2])
          IN  /\ TargetInRange(r.s) /\ Room(r.s)
              /\ Commit(r.s, "cm_straight_traverse", r.status, r.planner)
    /\ UNCHANGED <<main, bf>>

GetCoordOffsetVector ==
    /\ main = "idle"
    /\ CommitCall(St, [op |-> "cm_get_coord_offset_vector", status |-> STAT_OK,
                       planner |-> NotCalled,
                       vector |-> cm_get_coord_offset_vector(St)])
    /\ UNCHANGED <<main, bf>>

SetAbsoluteOverride ==
    /\ main = "idle"
    /\ \E b \in BOOLEAN :
          Commit(cm_set_absolute_override(St, b), "cm_set_absolute_override",
                 STAT_OK, NotCalled)
    /\ UNCHANGED <<main, bf>>

SetUnitsMode ==
    /\ main = "idle"
    /\ \E mode \in {INCHES, MILLIMETERS} :
          CommitCall(cm_set_units_mode(St, mode),
                     [op |-> "cm_set_units_mode", status |-> STAT_OK,
                      planner |-> NotCalled, mode |-> mode])
    /\ UNCHANGED <<main, bf>>

SetCoordSystem ==
    /\ main = "idle"
    /\ mp_get_planner_buffers_available(St) # 0
    /\ \E c \in {G53, G54, G54 + 1} :
          LET s == cm_set_coord_system(St, c)
          IN  Room(s) /\ Commit(s, "cm_set_coord_system", STAT_OK, NotCalled)
    /\ UNCHANGED <<main, bf>>

SetOriginOffsets ==
    /\ main = "idle"
    /\ mp_get_planner_buffers_available(St) # 0
    /\ \E in \in OriginInputs :
          LET s == cm_set_origin_offsets(St, in[1], in[2])
          IN  /\ CommandRoom(s)
              /\ CommitCall(s, [op |-> "cm_set_origin_offsets", status |-> STAT_OK,
                                planner |-> NotCalled,
                                offset |-> in[1], flag |-> in[2]])
    /\ UNCHANGED <<main, bf>>

ResetOriginOffsets ==
    /\ main = "idle"
    /\ mp_get_planner_buffers_available(St) # 0
    /\ LET s == cm_reset_origin_offsets(St)
       IN  CommandRoom(s) /\ Commit(s, "cm_reset_origin_offsets", STAT_OK, NotCalled)
    /\ UNCHANGED <<main, bf>>

\* the record keeps the offsets in force before the suspend
SuspendOriginOffsets ==
    /\ main = "idle"
    /\ mp_get_planner_buffers_available(St) # 0
    /\ LET s == cm_suspend_origin_offsets(St)
       IN  /\ CommandRoom(s)
           /\ CommitCall(s, [op |-> "cm_suspend_origin_offsets", status |-> STAT_OK,
                             planner |-> NotCalled,
                             enabled_before |-> gm.origin_offset_enable,
                             stored_before |-> gm.origin_offset,
                             vector_before |-> cm_get_coord_offset_vector(St)])
    /\ UNCHANGED <<main, bf>>

\* the record keeps the record of the call it follows
ResumeOriginOffsets ==
    /\ main = "idle"
    /\ mp_get_planner_buffers_available(St) # 0
    /\ LET s == cm_resume_origin_offsets(St)
       IN  /\ CommandRoom(s)
           /\ CommitCall(s, [op |-> "cm_resume_origin_offsets", status |-> STAT_OK,
                             planner |-> NotCalled, follows |-> call])
    /\ UNCHANGED <<main, bf>>

\* G10 words: X5, nothing flagged, and X15 A10
CoordOffsetInputs ==
    {<<Vec(5, 0), Vec(1, 0)>>, <<Vec(5, 0), Vec(0, 0)>>, <<Vec(15, 10), Vec(1, 1)>>}

\* G10 L2 for G53, a valid coordinate system and one past the last
SetCoordOffsets ==
    /\ main = "idle"
    /\ \E c \in {G53, G54 + 1, COORD_SYSTEM_MAX + 1}, in \in CoordOffsetInputs :
          LET r == cm_set_coord_offsets(St, c, in[1], in[2])
          IN  CommitCall(r.s, [op |-> "cm_set_coord_offsets", status |-> r.status,
                               planner |-> NotCalled, coord_system |-> c,
                               offset |-> in[1], flag |-> in[2]])
    /\ UNCHANGED <<main, bf>>

(***************************************************************************)
(* Actions of the main context: targets in both units and distance modes   *)
(***************************************************************************)
\* axis modes of the configuration: all standard, or Y disabled, Z inhibited
\* and B disabled
AxisModes ==
    {[i \in Axis |-> AXIS_STANDARD],
     [i \in Axis |-> IF i \in {AXIS_Y, AXIS_B} THEN AXIS_DISABLED
                     ELSE IF i = AXIS_Z THEN AXIS_INHIBITED ELSE AXIS_STANDARD]}

InitTarget ==
    /\ \E modes \in AxisModes :
          LET s == canonical_machine_init(
                       [PowerOn EXCEPT !.cfg.a = [i \in Axis |->
                                           [@[i] EXCEPT !.axis_mode = modes[i]]]])
          IN  /\ cm = s.cm
              /\ gm = s.gm
              /\ cfg = s.cfg
              /\ mb = s.mb
              /\ mm = s.mm
              /\ mr = s.mr
              /\ hist = s.hist
    /\ main = "idle"
    /\ call = [op |-> "canonical_machine_init", status |-> STAT_OK, planner |-> NotCalled]
    /\ seq = SeqNone
    /\ bf = BfNone

\* words X5 Y5 Z5, and X5 A5 B5
TargetInputs ==
    {<<[i \in Axis |-> IF i <= AXIS_Z THEN 5 ELSE 0],
       [i \in Axis |-> IF i <= AXIS_Z THEN 1 ELSE 0]>>,
     <<[i \in Axis |-> IF i \in {AXIS_X, AXIS_A, AXIS_B} THEN 5 ELSE 0],
       [i \in Axis |-> IF i \in {AXIS_X, AXIS_A, AXIS_B} THEN 1 ELSE 0]>>}

\* the call about to be made repeats the words of the successful feed made
\* just before it
Repeats(in) ==
    /\ call.op = "cm_straight_feed"
    /\ call.status = STAT_OK
    /\ call.target = in[1]
    /\ call.flags = in[2]

\* a straight feed, made when the planner has a buffer to take it; its
\* record keeps its words, the position and target before it, whether it
\* repeats the feed before it and the position and target before that one
Feed ==
    /\ main = "idle"
    /\ mp_get_planner_buffers_available(St) # 0
    /\ \E in \in TargetInputs :
          LET r == cm_straight_feed(St, in[1], in[2])
          IN  /\ TargetInRange(r.s) /\ Room(r.s)
              /\ CommitCall(r.s, [op |-> "cm_straight_feed", status |-> r.status,
                                  planner |-> r.planner,
                                  target |-> in[1], flags |-> in[2],
                                  position_before |-> gm.position,
                                  target_before |-> gm.target,
                                  repeats |-> Repeats(in),
                                  first_position |-> IF Repeats(in)
                                                     THEN call.position_before
                                                     ELSE gm.position,
                                  first_target |-> IF Repeats(in)
                                                   THEN call.target_before
                                                   ELSE gm.target])
    /\ UNCHANGED <<main, bf>>

SetDistanceMode ==
    /\ main = "idle"
    /\ \E mode \in {ABSOLUTE_MODE, INCREMENTAL_MODE} :
          CommitCall(cm_set_distance_mode(St, mode),
                     [op |-> "cm_set_distance_mode", status |-> STAT_OK,
                      planner |-> NotCalled, mode |-> mode])
    /\ UNCHANGED <<main, bf>>

(***************************************************************************)
(* Actions of the main context: commands queued for the runtime            *)
(***************************************************************************)
ChangeTool ==
    /\ main = "idle"
    /\ mp_get_planner_buffers_available(St) # 0
    /\ \E tool \in {1, 2} :
          LET s == cm_change_tool(St, tool)
          IN  Room(s) /\ Commit(s, "cm_change_tool", STAT_OK, NotCalled)
    /\ UNCHANGED <<main, bf>>

MistCoolantControl ==
    /\ main = "idle"
    /\ mp_get_planner_buffers_available(St) # 0
    /\ \E on \in BOOLEAN :
          LET s == cm_mist_coolant_control(St, on)
          IN  Room(s) /\ Commit(s, "cm_mist_coolant_control", STAT_OK, NotCalled)
    /\ UNCHANGED <<main, bf>>

FloodCoolantControl ==
    /\ main = "idle"
    /\ mp_get_planner_buffers_available(St) # 0
    /\ \E on \in BOOLEAN :
          LET s == cm_flood_coolant_control(St, on)
          IN  Room(s) /\ Commit(s, "cm_flood_coolant_control", STAT_OK, NotCalled)
    /\ UNCHANGED <<main, bf>>

SetSpindleSpeed ==
    /\ main = "idle"
    /\ mp_get_planner_buffers_available(St) # 0
    /\ \E speed \in {0, 1000} :
          LET s == cm_set_spindle_speed(St, speed)
          IN  Room(s) /\ Commit(s, "cm_set_spindle_speed", STAT_OK, NotCalled)
    /\ UNCHANGED <<main, bf>>

ProgramStop ==
    /\ main = "idle"
    /\ mp_get_planner_buffers_available(St) # 0
    /\ LET s == cm_program_stop(St)
       IN  Room(s) /\ Commit(s, "cm_program_stop", STAT_OK, NotCalled)
    /\ UNCHANGED <<main, bf>>

OptionalProgramStop ==
    /\ main = "idle"
    /\ mp_get_planner_buffers_available(St) # 0
    /\ LET s == cm_optional_program_stop(St)
       IN  Room(s) /\ Commit(s, "cm_optional_program_stop", STAT_OK, NotCalled)
    /\ UNCHANGED <<main, bf>>

(***************************************************************************)
(* Actions of the main context: the program and its end                    *)
(***************************************************************************)
\* the machine after canonical_machine_init, with a ring of
\* PROGRAM_BUFFER_POOL_SIZE buffers
InitProgram ==
    /\ LET s == canonical_machine_init(
                    [PowerOn EXCEPT !.mm.pool_size = PROGRAM_BUFFER_POOL_SIZE])
       IN  /\ cm = s.cm
           /\ gm = s.gm
           /\ cfg = s.cfg
           /\ mb = s.mb
           /\ mm = s.mm
           /\ mr = s.mr
           /\ hist = s.hist
    /\ main = "idle"
    /\ call = [op |-> "canonical_machine_init", status |-> STAT_OK, planner |-> NotCalled]
    /\ seq = SeqNone
    /\ bf = BfNone

SelectPlane ==
    /\ main = "idle"
    /\ \E plane \in {CANON_PLANE_XY, CANON_PLANE_XZ, CANON_PLANE_YZ} :
          CommitCall(cm_select_plane(St, plane),
                     [op |-> "cm_select_plane", status |-> STAT_OK,
                      planner |-> NotCalled, plane |-> plane])
    /\ UNCHANGED <<main, bf>>

SetInverseFeedRateMode ==
    /\ main = "idle"
    /\ \E mode \in BOOLEAN :
          CommitCall(cm_set_inverse_feed_rate_mode(St, mode),
                     [op |-> "cm_set_inverse_feed_rate_mode", status |-> STAT_OK,
                      planner |-> NotCalled, mode |-> mode])
    /\ UNCHANGED <<main, bf>>

SetMotionMode ==
    /\ main = "idle"
    /\ \E mode \in {MOTION_MODE_STRAIGHT_FEED, MOTION_MODE_CANCEL_MOTION_MODE} :
          Commit(cm_set_motion_mode(St, mode), "cm_set_motion_mode", STAT_OK, NotCalled)
    /\ UNCHANGED <<main, bf>>

\* the blocks the call queues are those numbered above queued_before
NewBlocks == 5

\* M2 or M30, read when the ring has room for the blocks of the call and the
\* program has not outgrown MaxBlocks; the record keeps the model as it stood
ProgramEnd ==
    /\ main = "idle"
    /\ mp_get_planner_buffers_available(St) >= NewBlocks
    /\ Room(St)
    /\ CommitCall(cm_program_end(St),
                  [op |-> "cm_program_end", status |-> STAT_OK, planner |-> NotCalled,
                   queued_before |-> Len(hist.qlog), model_before |-> gm])
    /\ UNCHANGED <<main, bf>>

(***************************************************************************)
(* Actions of the main context: commands that only change the model        *)
(***************************************************************************)
\* the machine after canonical_machine_init and one traverse, planned and
\* waiting in the ring behind the command of the initialization
InitPlanned ==
    /\ LET s == cm_straight_traverse(canonical_machine_init(PowerOn),
                                     Vec(40, 0), Vec(1, 0)).s
       IN  /\ cm = s.cm
           /\ gm = s.gm
           /\ cfg = s.cfg
           /\ mb = s.mb
           /\ mm = s.mm
           /\ mr = s.mr
           /\ hist = s.hist
    /\ main = "idle"
    /\ call = [op |-> "cm_straight_traverse", status |-> STAT_OK, planner |-> STAT_OK]
    /\ seq = SeqNone
    /\ bf = BfNone

\* M50 P0 and M50 P50 as the parser hands them over
EnableWords ==
    {[flag |-> 1, gf |-> [parameter |-> 1], gn |-> [parameter |-> 0]],
     [flag |-> 1, gf |-> [parameter |-> 1], gn |-> [parameter |-> 50]]}

FactorWords ==
    {[flag |-> 0, gn |-> [parameter |-> 0]], [flag |-> 1, gn |-> [parameter |-> 50]]}

SetPathControl ==
    /\ main = "idle"
    /\ \E mode \in {PATH_EXACT_STOP, PATH_CONTINUOUS} :
          CommitCall(cm_set_path_control(St, mode),
                     [op |-> "cm_set_path_control", status |-> STAT_OK,
                      planner |-> NotCalled, mode |-> mode])
    /\ UNCHANGED <<main, bf>>

OverrideEnables ==
    /\ main = "idle"
    /\ \E flag \in {0, 1} :
          CommitCall(cm_override_enables(St, flag),
                     [op |-> "cm_override_enables", status |-> STAT_OK, planner |-> NotCalled,
                      flag |-> flag])
    /\ UNCHANGED <<main, bf>>

FeedRateOverrideEnable ==
    /\ main = "idle"
    /\ \E in \in EnableWords :
          CommitCall(cm_feed_rate_override_enable(St, in.flag, in.gf, in.gn),
                     [op |-> "cm_feed_rate_override_enable", status |-> STAT_OK, planner |-> NotCalled,
                      flag |-> in.flag, gf |-> in.gf, gn |-> in.gn])
    /\ UNCHANGED <<main, bf>>

FeedRateOverrideFactor ==
    /\ main = "idle"
    /\ \E in \in FactorWords :
          CommitCall(cm_feed_rate_override_factor(St, in.flag, in.gn),
                     [op |-> "cm_feed_rate_override_factor", status |-> STAT_OK, planner |-> NotCalled,
                      flag |-> in.flag, gn |-> in.gn])
    /\ UNCHANGED <<main, bf>>

TraverseOverrideEnable ==
    /\ main = "idle"
    /\ \E in \in EnableWords :
          CommitCall(cm_traverse_override_enable(St, in.flag, in.gf, in.gn),
                     [op |-> "cm_traverse_override_enable", status |-> STAT_OK, planner |-> NotCalled,
                      flag |-> in.flag, gf |-> in.gf, gn |-> in.gn])
    /\ UNCHANGED <<main, bf>>

TraverseOverrideFactor ==
    /\ main = "idle"
    /\ \E in \in FactorWords :
          CommitCall(cm_traverse_override_factor(St, in.flag, in.gn),
                     [op |-> "cm_traverse_override_factor", status |-> STAT_OK, planner |-> NotCalled,
                      flag |-> in.flag, gn |-> in.gn])
    /\ UNCHANGED <<main, bf>>

SpindleOverrideEnable ==
    /\ main = "idle"
    /\ \E in \in EnableWords :
          CommitCall(cm_spindle_override_enable(St, in.flag, in.gf, in.gn),
                     [op |-> "cm_spindle_override_enable", status |-> STAT_OK, planner |-> NotCalled,
                      flag |-> in.flag, gf |-> in.gf, gn |-> in.gn])
    /\ UNCHANGED <<main, bf>>

SpindleOverrideFactor ==
    /\ main = "idle"
    /\ \E in \in FactorWords :
          CommitCall(cm_spindle_override_factor(St, in.flag, in.gn),
                     [op |-> "cm_spindle_override_factor", status |-> STAT_OK, planner |-> NotCalled,
                      flag |-> in.flag, gn |-> in.gn])
    /\ UNCHANGED <<main, bf>>

\* a status report reading the combined state; the record keeps the value
\* returned
GetCombinedState ==
    /\ main = "idle"
    /\ LET r == cm_get_combined_state(St)
       IN  CommitCall(r.s, [op |-> "cm_get_combined_state", status |-> STAT_OK,
                            planner |-> NotCalled, value |-> r.value])
    /\ UNCHANGED <<main, bf>>

(***************************************************************************)
(* Actions of the exec context                                             *)
(***************************************************************************)
ExecCommand ==
    /\ Len(mb) > 0 /\ Head(mb).move_type = MOVE_TYPE_COMMAND
    /\ cm.hold_state # FEEDHOLD_HOLD
    /\ CommitCall(exec_command(St),
                  [op |-> "exec", status |-> STAT_OK, planner |-> NotCalled,
                   cm_exec |-> Head(mb).cm_exec, int_val |-> Head(mb).int_val,
                   mist_coolant |-> gm.mist_coolant,
                   flood_coolant |-> gm.flood_coolant,
                   hold_state |-> cm.hold_state])
    /\ UNCHANGED <<main, bf>>

ExecLineStart ==
    /\ Len(mb) > 0 /\ Head(mb).move_type = MOVE_TYPE_ALINE
    /\ ~mr.running /\ cm.hold_state # FEEDHOLD_HOLD
    /\ Commit(exec_aline_start(St), "exec", STAT_OK, NotCalled)
    /\ UNCHANGED <<main, bf>>

ExecLineEnd ==
    /\ mr.running /\ cm.hold_state = FEEDHOLD_OFF
    /\ Commit(exec_aline_end(St), "exec", STAT_OK, NotCalled)
    /\ UNCHANGED <<main, bf>>

ExecHoldSync ==
    /\ mr.running /\ cm.hold_state = FEEDHOLD_SYNC
    /\ Commit(exec_hold_sync(St), "exec", STAT_OK, NotCalled)
    /\ UNCHANGED <<main, bf>>

ExecHoldDecel ==
    /\ mr.running /\ cm.hold_state = FEEDHOLD_DECEL
    /\ Commit(exec_hold_decel(St), "exec", STAT_OK, NotCalled)
    /\ UNCHANGED <<main, bf>>

(***************************************************************************)
(* The trapezoid solver on its own: a block as the planner hands it over,  *)
(* and the call of mp_calculate_trapezoid on it                            *)
(***************************************************************************)
ZoidVelocities == {0, 50, 100, 101, 200}

ZoidVmax == {200, 400}

ZoidDeltaVmax == {20, 300}

\* 120000 units are 0.001 mm
ZoidLengths ==
    {100000, 800000, 1100000, 2000000, 4000000, 10000000, 40000000, 100000000,
     1000000000}

\* the jerk of the blocks: 17000 half microseconds per sqrt(mm/min), close
\* to 50 million mm/min^3
ZoidSqrtRecipJerk == {17000}

Block(length, entry, cruise, exit, vmax, dvmax, r) ==
    [length |-> length, entry_velocity |-> entry, cruise_velocity |-> cruise,
     exit_velocity |-> exit, cruise_vmax |-> vmax, delta_vmax |-> dvmax,
     sqrt_recip_jerk |-> r,
     head_length |-> 0, body_length |-> 0, tail_length |-> 0,
     computed_velocity |-> 0, passes |-> 0, returned |-> TRUE, path |-> "none",
     state |-> "requested",
     req |-> [length |-> length, entry_velocity |-> entry,
              cruise_velocity |-> cruise, exit_velocity |-> exit]]

ZoidInputs ==
    {Block(l, e, c, x, v, d, r) :
        l \in ZoidLengths, e \in ZoidVelocities, c \in ZoidVelocities,
        x \in ZoidVelocities, v \in ZoidVmax, d \in ZoidDeltaVmax,
        r \in ZoidSqrtRecipJerk}

InitZoid ==
    /\ LET s == canonical_machine_init(PowerOn)
       IN  /\ cm = s.cm
           /\ gm = s.gm
           /\ cfg = s.cfg
           /\ mb = s.mb
           /\ mm = s.mm
           /\ mr = s.mr
           /\ hist = s.hist
    /\ main = "idle"
    /\ call = [op |-> "canonical_machine_init", status |-> STAT_OK, planner |-> NotCalled]
    /\ seq = SeqNone
    /\ bf \in ZoidInputs

CalculateTrapezoid ==
    /\ bf.state = "requested"
    /\ bf' = [mp_calculate_trapezoid(bf) EXCEPT !.state = "called"]
    /\ UNCHANGED <<cm, gm, cfg, mb, mm, mr, main, call, seq, hist>>

(***************************************************************************)
(* Properties of the motion calls                                          *)
(***************************************************************************)
IsMotionCall(op) == op \in {"cm_straight_feed", "cm_straight_traverse"}

\* C1: a straight feed or traverse that hands a line to the planner leaves
\* gm.position equal to gm.target on all six axes when the planner answers
\* STAT_OK; on any other answer gm.position is what it was before the call
\* and the call returns the planner's status.
C1_EndpointFollowsPlanner ==
    [][(IsMotionCall(call'.op) /\ call'.planner # NotCalled)
       => /\ call'.planner = STAT_OK
             => \A i \in Axis : gm'.position[i] = gm'.target[i]
          /\ call'.planner # STAT_OK
             => /\ gm'.position = gm.position
                /\ call'.status = call'.planner]_vars

\* a feed refused by the planner for being too short left the position behind
\* the target
C1_Witness ==
    /\ call.op = "cm_straight_feed"
    /\ call.planner = STAT_MINIMUM_LENGTH_MOVE_ERROR
    /\ call.status = STAT_MINIMUM_LENGTH_MOVE_ERROR
    /\ gm.position # gm.target

\* the feed rate of the model lets a straight feed go ahead
UsableFeedRate == ~(gm.inverse_feed_rate_mode = FALSE /\ fp_ZERO(gm.feed_rate))

\* C2: a straight feed with a usable feed rate, or a straight traverse, whose
\* resolved target equals the position on every axis returns STAT_OK, appends
\* no block to the planner, leaves machine_state and cycle_state alone and
\* leaves gm.position unchanged.
C2_ZeroDistanceNoOp ==
    [][(/\ \/ call'.op = "cm_straight_traverse"
           \/ call'.op = "cm_straight_feed" /\ UsableFeedRate
        /\ \A i \in Axis : gm'.target[i] = gm.position[i])
       => /\ call'.status = STAT_OK
          /\ mb' = mb
          /\ hist'.qlog = hist.qlog
          /\ cm'.machine_state = cm.machine_state
          /\ cm'.cycle_state = cm.cycle_state
          /\ gm'.position = gm.position]_vars

\* a traverse to the place the machine already stands at, made after the
\* program had stopped: no line was submitted and the program is still stopped
C2_Witness ==
    /\ call.op = "cm_straight_traverse"
    /\ call.planner = NotCalled
    /\ call.status = STAT_OK
    /\ gm.target = gm.position
    /\ cm.machine_state = MACHINE_PROGRAM_STOP
    /\ cm.cycle_state = CYCLE_OFF

\* C20: a straight feed called with inverse feed rate mode off and a feed
\* rate of zero returns the feed rate error, appends no block to the planner,
\* starts no cycle and leaves gm.target and gm.position as they were.
C20_ZeroFeedRateRejected ==
    [][(/\ call'.op = "cm_straight_feed"
        /\ gm.inverse_feed_rate_mode = FALSE
        /\ gm.feed_rate = 0)
       => /\ call'.status = STAT_GCODE_FEEDRATE_ERROR
          /\ call'.planner = NotCalled
          /\ mb' = mb
          /\ hist'.qlog = hist.qlog
          /\ cm'.machine_state = cm.machine_state
          /\ cm'.cycle_state = cm.cycle_state
          /\ gm'.target = gm.target
          /\ gm'.position = gm.position]_vars

\* a feed refused for want of a feed rate after an earlier feed had run to
\* its end: the program is still stopped and the machine away from the origin
C20_Witness ==
    /\ call.op = "cm_straight_feed"
    /\ call.status = STAT_GCODE_FEEDRATE_ERROR
    /\ gm.feed_rate = 0
    /\ cm.machine_state = MACHINE_PROGRAM_STOP
    /\ cm.cycle_state = CYCLE_OFF
    /\ gm.position = gm.target
    /\ gm.position[AXIS_X] # 0
    /\ Len(mb) = 0

(***************************************************************************)
(* Properties of the coordinate offsets                                    *)
(***************************************************************************)
\* the machine as it stands after the step
StNext == [cm |-> cm', gm |-> gm', cfg |-> cfg', mb |-> mb', mm |-> mm', mr |-> mr',
           hist |-> hist']

\* the offset of the coordinate system alone
SystemOffset(axis) == cfg.offset[gm.coord_system][axis]

\* the effective offset as the specification resolves it
EffectiveOffset(axis) ==
    IF gm.absolute_override THEN 0
    ELSE SystemOffset(axis)
         + (IF gm.origin_offset_enable = 1 THEN gm.origin_offset[axis] ELSE 0)

\* C11: cm_get_coord_offset(axis) is 0 under the absolute override; without
\* it, the offset of the coordinate system plus the origin offset when origin
\* offsets are enabled and the offset of the coordinate system alone when
\* they are not, on every axis and in every coordinate system.
C11_CoordOffset ==
    /\ \A axis \in Axis : cm_get_coord_offset(St, axis) = EffectiveOffset(axis)
    /\ call.op = "cm_get_coord_offset_vector"
       => \A axis \in Axis : call.vector[axis] = EffectiveOffset(axis)

\* the offsets read under the absolute override in G55 with a G92 offset in
\* force: zero on every axis
C11_Witness ==
    /\ call.op = "cm_get_coord_offset_vector"
    /\ gm.absolute_override = TRUE
    /\ gm.origin_offset_enable = 1
    /\ gm.origin_offset[AXIS_X] # 0
    /\ gm.coord_system = G54 + 1
    /\ SystemOffset(AXIS_X) = 20
    /\ call.vector = ZeroVec

\* C14: after G92 flags axis i with value v, origin offsets are enabled and
\* origin_offset[i] = position[i] - cfg.offset[coord_system][i] - to_mm(v);
\* with the absolute override off the effective offset of the axis is
\* position[i] - to_mm(v) and its model work position reads v; the stored
\* offset of an unflagged axis is unchanged.
C14_OriginOffsetsSet ==
    [][call'.op = "cm_set_origin_offsets"
       => /\ gm'.origin_offset_enable = 1
          /\ \A i \in Axis :
                IF call'.flag[i] # 0
                THEN /\ gm'.origin_offset[i]
                           = gm.position[i] - SystemOffset(i)
                             - _to_millimeters(St, call'.offset[i])
                     /\ gm'.absolute_override = FALSE
                        => /\ cm_get_coord_offset(StNext, i)
                                 = gm.position[i] - _to_millimeters(St, call'.offset[i])
                           /\ cm_get_model_work_position(StNext, i) = call'.offset[i]
                ELSE gm'.origin_offset[i] = gm.origin_offset[i]]_vars

\* G54 with offset 10 on X, the machine at 50: G92 X0 stores 40 and makes the
\* effective offset 50
C14_Witness ==
    /\ call.op = "cm_set_origin_offsets"
    /\ call.flag[AXIS_X] # 0 /\ call.offset[AXIS_X] = 0
    /\ gm.coord_system = G54 /\ SystemOffset(AXIS_X) = 10
    /\ gm.position[AXIS_X] = 50
    /\ gm.absolute_override = FALSE
    /\ gm.origin_offset[AXIS_X] = 40
    /\ cm_get_coord_offset(St, AXIS_X) = 50
    /\ cm_get_model_work_position(St, AXIS_X) = 0

\* C15 as stated: after G92.1 the effective offset of every axis is the
\* offset of the coordinate system and the stored origin offsets are zero;
\* G92.2 followed by G92.3 leaves the stored origin offsets unchanged and
\* restores the effective offset that held before the suspend, and between
\* the two the effective offset is the offset of the coordinate system.
C15_ResetSuspendResume ==
    /\ [](call.op = "cm_reset_origin_offsets"
          => /\ gm.origin_offset = ZeroVec
             /\ \A i \in Axis : cm_get_coord_offset(St, i) = SystemOffset(i))
    /\ [](call.op = "cm_suspend_origin_offsets"
          => \A i \in Axis : cm_get_coord_offset(St, i) = SystemOffset(i))
    /\ [][(call.op = "cm_suspend_origin_offsets"
           /\ call'.op = "cm_resume_origin_offsets")
          => /\ gm'.origin_offset = call.stored_before
             /\ cm_get_coord_offset_vector(StNext) = call.vector_before]_vars

\* C15 with its conditions: the stored origin offsets are zero after G92.1
\* and unchanged across G92.2 and G92.3 always; the effective offset is the
\* offset of the coordinate system after G92.1 and after G92.2 when the
\* absolute override is off; G92.3 restores the effective offset that held
\* before the suspend when origin offsets were enabled before the suspend.
C15_ResetSuspendResumeConditioned ==
    /\ [](call.op = "cm_reset_origin_offsets"
          => /\ gm.origin_offset = ZeroVec
             /\ gm.origin_offset_enable = 0
             /\ gm.absolute_override = FALSE
                => \A i \in Axis : cm_get_coord_offset(St, i) = SystemOffset(i))
    /\ [](call.op = "cm_suspend_origin_offsets"
          => /\ gm.origin_offset = call.stored_before
             /\ gm.absolute_override = FALSE
                => \A i \in Axis : cm_get_coord_offset(St, i) = SystemOffset(i))
    /\ [][(call.op = "cm_suspend_origin_offsets"
           /\ call'.op = "cm_resume_origin_offsets")
          => /\ gm'.origin_offset = call.stored_before
             /\ call.enabled_before = 1
                => cm_get_coord_offset_vector(StNext) = call.vector_before]_vars

\* G92 X5 at the G54 origin, then G92.2 and G92.3: the stored offset of -15
\* is back in force and the effective offset is what it was
C15_Witness ==
    /\ call.op = "cm_resume_origin_offsets"
    /\ call.follows.op = "cm_suspend_origin_offsets"
    /\ call.follows.enabled_before = 1
    /\ gm.absolute_override = FALSE
    /\ gm.coord_system = G54
    /\ gm.origin_offset_enable = 1
    /\ gm.origin_offset[AXIS_X] = -15
    /\ cm_get_coord_offset(St, AXIS_X) = -5
    /\ call.follows.vector_before[AXIS_X] = -5

(***************************************************************************)
(* Properties of the coordinate system offsets                             *)
(***************************************************************************)
ValidCoordSystem(c) == c >= G54 /\ c <= COORD_SYSTEM_MAX

\* C21: cm_set_coord_offsets called with a coordinate system below G54 (G53
\* included) or above COORD_SYSTEM_MAX returns a range error and leaves
\* cfg.offset and g10_persist_flag as they were; cfg.offset[G53][i] is 0 for
\* every axis throughout.
C21_G53NeverWritten ==
    /\ [](\A i \in Axis : cfg.offset[G53][i] = 0)
    /\ [][(call'.op = "cm_set_coord_offsets" /\ ~ValidCoordSystem(call'.coord_system))
          => /\ call'.status = STAT_INTERNAL_RANGE_ERROR
             /\ cfg'.offset = cfg.offset
             /\ cm'.g10_persist_flag = cm.g10_persist_flag]_vars

\* G10 L2 P0 with X flagged refused after an accepted G10 had raised the flag
C21_Witness ==
    /\ call.op = "cm_set_coord_offsets"
    /\ call.coord_system = G53 /\ call.flag[AXIS_X] = 1 /\ call.offset[AXIS_X] # 0
    /\ call.status = STAT_INTERNAL_RANGE_ERROR
    /\ cm.g10_persist_flag = TRUE
    /\ cfg.offset[G54 + 1][AXIS_X] = 15

\* what an accepted G10 leaves in cfg.offset and in the persist flag
CoordOffsetsWritten ==
    (call'.op = "cm_set_coord_offsets" /\ ValidCoordSystem(call'.coord_system))
    => /\ call'.status = STAT_OK
       /\ \A c \in G53..COORD_SYSTEM_MAX : \A i \in Axis :
             cfg'.offset[c][i] = IF c = call'.coord_system /\ call'.flag[i] # 0
                                 THEN call'.offset[i] ELSE cfg.offset[c][i]
       /\ cm'.g10_persist_flag
             = (cm.g10_persist_flag \/ \E i \in Axis : call'.flag[i] # 0)

\* C29: cm_set_coord_offsets with a valid coordinate system writes offset[i]
\* into cfg.offset[coord_system][i] for the flagged axes only, leaves the
\* unflagged axes and the other coordinate systems as they were, and raises
\* g10_persist_flag exactly when an axis was written; no operation of the
\* canonical machine clears the flag afterwards.
C29_CoordOffsetsWritten ==
    [][/\ CoordOffsetsWritten
       /\ cm.g10_persist_flag = TRUE => cm'.g10_persist_flag = TRUE]_vars

\* ... no operation but canonical_machine_init, which zeroes cm
C29_CoordOffsetsWrittenUntilInit ==
    [][/\ CoordOffsetsWritten
       /\ (cm.g10_persist_flag = TRUE /\ call'.op # "canonical_machine_init")
          => cm'.g10_persist_flag = TRUE]_vars

\* G10 L2 P2 X15 A10 accepted with the flag still down, and G54 untouched
C29_Witness ==
    /\ call.op = "cm_set_coord_offsets" /\ call.status = STAT_OK
    /\ call.coord_system = G54 + 1
    /\ cfg.offset[G54 + 1][AXIS_X] = 15 /\ cfg.offset[G54 + 1][AXIS_A] = 10
    /\ cfg.offset[G54 + 1][AXIS_Y] = 0
    /\ cfg.offset[G54][AXIS_X] = 10
    /\ cm.g10_persist_flag = TRUE

(***************************************************************************)
(* Properties of the target                                                *)
(***************************************************************************)
\* an input length in millimetres, in the units mode of the model
to_mm(a) == IF gm.units_mode = INCHES THEN (a * MM_PER_INCH_NUM) \div MM_PER_INCH_DEN
                                      ELSE a

Linear(i) == i \in {AXIS_X, AXIS_Y, AXIS_Z}

Enabled(i) == cfg.a[i].axis_mode \in {AXIS_STANDARD, AXIS_INHIBITED}

\* the feed resolved its target: it was not refused for want of a feed rate
ResolvedTarget == call.op = "cm_straight_feed" /\ call.status # STAT_GCODE_FEEDRATE_ERROR

\* C12: cm_set_target sets the target of each flagged X, Y or Z axis in
\* standard or inhibited mode to effective offset + to_mm(input) in absolute
\* distance mode and to old target + to_mm(input) in incremental mode, and
\* leaves the target of every unflagged or disabled axis unchanged.
C12_TargetResolved ==
    ResolvedTarget
    => \A i \in Axis :
          /\ (Linear(i) /\ call.flags[i] # 0 /\ Enabled(i))
             => gm.target[i] = IF gm.distance_mode = ABSOLUTE_MODE
                               THEN EffectiveOffset(i) + to_mm(call.target[i])
                               ELSE call.target_before[i] + to_mm(call.target[i])
          /\ (call.flags[i] = 0 \/ cfg.a[i].axis_mode = AXIS_DISABLED)
             => gm.target[i] = call.target_before[i]

\* G20 G91 X5 Y5 Z5 away from the origin with Y disabled: X and Z moved on by
\* 5 inches, Y and the unflagged A stayed
C12_Witness ==
    /\ ResolvedTarget
    /\ gm.units_mode = INCHES /\ gm.distance_mode = INCREMENTAL_MODE
    /\ call.target[AXIS_X] = 5 /\ call.flags[AXIS_X] # 0
    /\ call.target_before[AXIS_X] # 0
    /\ gm.target[AXIS_X] = call.target_before[AXIS_X] + 127
    /\ cfg.a[AXIS_Y].axis_mode = AXIS_DISABLED /\ call.flags[AXIS_Y] # 0
    /\ gm.target[AXIS_Y] = call.target_before[AXIS_Y]
    /\ cfg.a[AXIS_Z].axis_mode = AXIS_INHIBITED
    /\ gm.target[AXIS_Z] = call.target_before[AXIS_Z] + 127
    /\ call.target_before[AXIS_A] # 0
    /\ gm.target[AXIS_A] = call.target_before[AXIS_A]

C26_WitnessAbsolute ==
    /\ ResolvedTarget
    /\ gm.units_mode = INCHES /\ gm.distance_mode = ABSOLUTE_MODE
    /\ call.flags[AXIS_A] # 0 /\ call.target[AXIS_A] = 5
    /\ call.target_before[AXIS_A] # 5
    /\ gm.target[AXIS_A] = 5

\* a move was accepted in absolute distance mode
MovedAbsolute ==
    /\ call.op = "cm_set_gcode_model_endpoint_position"
    /\ call.status = STAT_OK
    /\ gm.distance_mode = ABSOLUTE_MODE

Standard(i) == cfg.a[i].axis_mode = AXIS_STANDARD

\* C27 as claimed: after a successful absolute-mode move of a standard X, Y
\* or Z axis to the word v, in inches or in millimetres,
\* cm_get_model_work_position(axis) returns v again, whatever coordinate
\* system and G92 offset are in force.
C27_WorkPositionIsWord ==
    MovedAbsolute
    => \A i \in {AXIS_X, AXIS_Y, AXIS_Z} :
          (call.flags[i] # 0 /\ Standard(i))
          => cm_get_model_work_position_single(St, i) = call.target[i]

\* nothing was rounded away on the way in: word * 25.4 (in inches mode) and
\* the sum with the effective offset are both floats
StoredExactly(i) ==
    IF gm.units_mode = INCHES
    THEN LET m == MulDiv(call.target[i], MM_PER_INCH_NUM, MM_PER_INCH_DEN)
         IN  /\ m.r = 0
             /\ Single(m.q) = m.q
             /\ Single(EffectiveOffset(i) + m.q) = EffectiveOffset(i) + m.q
    ELSE Single(EffectiveOffset(i) + call.target[i]) = EffectiveOffset(i) + call.target[i]

\* C27 as far as it holds: the work position read back is the word v when
\* the target offset + to_mm(v) was stored without rounding.
C27_WorkPositionIsWordWhenExact ==
    MovedAbsolute
    => \A i \in {AXIS_X, AXIS_Y, AXIS_Z} :
          (call.flags[i] # 0 /\ Standard(i) /\ StoredExactly(i))
          => cm_get_model_work_position_single(St, i) = call.target[i]

\* G20 X5 in a coordinate system 10 mm off: 137 mm stored, 5 read back
C27_Witness ==
    /\ MovedAbsolute
    /\ gm.units_mode = INCHES
    /\ call.flags[AXIS_X] # 0 /\ call.target[AXIS_X] = 20971520
    /\ EffectiveOffset(AXIS_X) = 41943040
    /\ StoredExactly(AXIS_X)
    /\ gm.position[AXIS_X] = 574619648
    /\ cm_get_model_work_position_single(St, AXIS_X) = 20971520

\* the last call was a motion call with a word for an axis in radius mode
\* whose radius is zero
ZeroRadiusCall ==
    /\ call.op \in {"cm_straight_traverse", "cm_straight_feed"}
    /\ "queued_before" \in DOMAIN call
    /\ \E i \in {AXIS_A, AXIS_B, AXIS_C} :
           /\ fp_TRUE(call.flags[i])
           /\ cfg.a[i].axis_mode = AXIS_RADIUS
           /\ cfg.a[i].radius = 0

\* C30: a motion call that flags a rotary axis in radius mode with radius
\* zero returns a status other than OK, appends no block to the planner and
\* leaves gm.target and gm.position as they were
C30_ZeroRadiusRejected ==
    ZeroRadiusCall =>
        /\ call.status # STAT_OK
        /\ Len(hist.qlog) = call.queued_before
        /\ gm.target = call.target_before
        /\ gm.position = call.position_before

\* what the code does with such a call once it is past the feed rate test:
\* the target of the axis is an infinity of the sign of the word, and the
\* status is whatever the planner returned
ZeroRadiusResolved ==
    ZeroRadiusCall /\ call.planner # NotCalled =>
        /\ gm.target[AXIS_A] = DivideByZero(call.target[AXIS_A])
        /\ call.status = call.planner

\* such a call accepted: status OK, a line queued to an infinite target and
\* the model position moved there
ZeroRadiusAccepted ==
    /\ ZeroRadiusCall
    /\ call.status = STAT_OK
    /\ Len(hist.qlog) = call.queued_before + 1
    /\ isinf(gm.target[AXIS_A])
    /\ isinf(gm.position[AXIS_A])


\* a successful feed that repeats the words of the successful feed before it
RepeatedFeed == call.op = "cm_straight_feed" /\ call.repeats /\ call.status = STAT_OK

\* C13 as stated: the same absolute target issued twice ends where issuing
\* it once ends and the second call queues nothing; the same incremental
\* displacement D issued twice ends at the start position plus 2 to_mm(D) on
\* each flagged axis.
C13_TwiceTheSame ==
    RepeatedFeed
    => IF gm.distance_mode = ABSOLUTE_MODE
       THEN gm.position = call.position_before /\ call.planner = NotCalled
       ELSE \A i \in Axis :
               call.flags[i] # 0
               => gm.position[i] = call.first_position[i] + 2 * to_mm(call.target[i])

\* C13 per kind of axis: in absolute mode as stated; in incremental mode,
\* starting with the target at the position, a flagged X, Y or Z axis in
\* standard or inhibited mode ends at start + 2 to_mm(D), a flagged A, B or C
\* axis in standard or inhibited mode at start + 2 D (degrees are not
\* converted), and a disabled or unflagged axis at the start.
C13_TwiceTheSamePerAxis ==
    RepeatedFeed
    => IF gm.distance_mode = ABSOLUTE_MODE
       THEN gm.position = call.position_before /\ call.planner = NotCalled
       ELSE call.first_target = call.first_position
            => \A i \in Axis :
                  gm.position[i]
                  = IF call.flags[i] = 0 \/ cfg.a[i].axis_mode = AXIS_DISABLED
                    THEN call.first_position[i]
                    ELSE IF Linear(i)
                    THEN call.first_position[i] + 2 * to_mm(call.target[i])
                    ELSE call.first_position[i] + 2 * call.target[i]

\* G20 G91 X5 A5 B5 twice from the G54 origin, B disabled: X went 10
\* inches, A 10 degrees and B stayed
C13_Witness ==
    /\ RepeatedFeed
    /\ gm.units_mode = INCHES /\ gm.distance_mode = INCREMENTAL_MODE
    /\ call.first_target = call.first_position
    /\ call.target[AXIS_X] = 5 /\ call.flags[AXIS_X] # 0
    /\ gm.position[AXIS_X] = call.first_position[AXIS_X] + 254
    /\ call.target[AXIS_A] = 5 /\ call.flags[AXIS_A] # 0
    /\ gm.position[AXIS_A] = call.first_position[AXIS_A] + 10
    /\ cfg.a[AXIS_B].axis_mode = AXIS_DISABLED /\ call.flags[AXIS_B] # 0
    /\ gm.position[AXIS_B] = call.first_position[AXIS_B]

(***************************************************************************)
(* Properties of the program end                                           *)
(***************************************************************************)
\* the blocks of the ring queued by the call just made
Queued == {k \in 1..Len(mb) : mb[k].id > call.queued_before}

QueuedCommands ==
    {"cm_change_tool", "cm_select_tool", "cm_mist_coolant_control",
     "cm_flood_coolant_control", "cm_spindle_control", "cm_set_spindle_speed",
     "cm_program_stop", "cm_optional_program_stop"}

\* the fields the queued commands are about
Deferred(g, c) ==
    [tool |-> g.tool, mist_coolant |-> g.mist_coolant, flood_coolant |-> g.flood_coolant,
     spindle_mode |-> g.spindle_mode, spindle_speed |-> g.spindle_speed,
     machine_state |-> c.machine_state]

\* the step is the runtime executing a command block with one of these callbacks
Runs(callbacks) ==
    /\ call'.op = "exec"
    /\ Len(mb) > 0 /\ Head(mb).move_type = MOVE_TYPE_COMMAND
    /\ Head(mb).cm_exec \in callbacks
    /\ mb' = Tail(mb)

\* the last step was the runtime executing a command block with this callback
\* and this argument
Executed(cm_exec, int_val) ==
    /\ call.op = "exec"
    /\ "cm_exec" \in DOMAIN call
    /\ call.cm_exec = cm_exec /\ call.int_val = int_val

\* C18: cm_change_tool, cm_select_tool, cm_mist_coolant_control,
\* cm_flood_coolant_control, cm_spindle_control, cm_set_spindle_speed,
\* cm_program_stop and cm_optional_program_stop leave gm.tool, gm.mist_coolant,
\* gm.flood_coolant, gm.spindle_mode, gm.spindle_speed and machine_state as
\* they are at call time and append exactly one command block to the ring;
\* each of the fields changes only in a step of the runtime that executes the
\* callback of such a block.
C18_QueuedCommandsDeferred ==
    [][/\ call'.op \in QueuedCommands
          => /\ Deferred(gm', cm') = Deferred(gm, cm)
             /\ Len(mb') = Len(mb) + 1
             /\ SubSeq(mb', 1, Len(mb)) = mb
             /\ mb'[Len(mb')].move_type = MOVE_TYPE_COMMAND
             /\ Len(hist'.qlog) = Len(hist.qlog) + 1
       /\ gm'.tool # gm.tool => Runs({"_exec_change_tool", "_exec_select_tool"})
       /\ gm'.mist_coolant # gm.mist_coolant
          => Runs({"_exec_mist_coolant_control", "_exec_flood_coolant_control"})
       /\ gm'.flood_coolant # gm.flood_coolant => Runs({"_exec_flood_coolant_control"})
       /\ gm'.spindle_mode # gm.spindle_mode => Runs({"_exec_spindle_control"})
       /\ gm'.spindle_speed # gm.spindle_speed => Runs({"_exec_spindle_speed"})
       /\ cm'.machine_state # cm.machine_state => Runs({"_program_finalize"})]_vars

\* a program stop read while a tool change, a coolant command and its own
\* block wait in the ring, none of them yet in effect
C18_Witness ==
    /\ call.op = "cm_program_stop"
    /\ Len(mb) = 3
    /\ mb[1].cm_exec = "_exec_change_tool" /\ mb[1].int_val # gm.tool
    /\ mb[2].cm_exec = "_exec_flood_coolant_control" /\ mb[2].int_val # gm.flood_coolant
    /\ mb[3].cm_exec = "_program_finalize"
    /\ cm.machine_state # MACHINE_PROGRAM_STOP

\* C36: an executed flood-coolant-off command (M9) leaves flood_coolant and
\* mist_coolant both off; an executed flood-coolant-on command sets
\* flood_coolant on and leaves mist_coolant as it was; an executed
\* mist-coolant command leaves flood_coolant as it was.
C36_CoolantCommands ==
    [][/\ (Runs({"_exec_flood_coolant_control"}) /\ Head(mb).int_val = FALSE)
          => gm'.flood_coolant = FALSE /\ gm'.mist_coolant = FALSE
       /\ (Runs({"_exec_flood_coolant_control"}) /\ Head(mb).int_val = TRUE)
          => gm'.flood_coolant = TRUE /\ gm'.mist_coolant = gm.mist_coolant
       /\ Runs({"_exec_mist_coolant_control"})
          => /\ gm'.flood_coolant = gm.flood_coolant
             /\ gm'.mist_coolant = Head(mb).int_val]_vars

\* M9 executed with mist and flood both on
C36_Witness ==
    /\ Executed("_exec_flood_coolant_control", FALSE)
    /\ call.mist_coolant = TRUE /\ call.flood_coolant = TRUE
    /\ gm.mist_coolant = FALSE /\ gm.flood_coolant = FALSE

\* M8 executed with the mist on and the flood off
C36_WitnessFloodOn ==
    /\ Executed("_exec_flood_coolant_control", TRUE)
    /\ call.mist_coolant = TRUE /\ call.flood_coolant = FALSE
    /\ gm.mist_coolant = TRUE /\ gm.flood_coolant = TRUE

\* a mist command executed with the flood on
C36_WitnessMist ==
    /\ Executed("_exec_mist_coolant_control", FALSE)
    /\ call.mist_coolant = TRUE /\ call.flood_coolant = TRUE
    /\ gm.mist_coolant = FALSE /\ gm.flood_coolant = TRUE

(***************************************************************************)
(* Properties of the commands that only change the model                   *)
(***************************************************************************)
ModelCommands ==
    {"cm_set_feed_rate", "cm_set_units_mode", "cm_set_distance_mode",
     "cm_select_plane", "cm_set_path_control", "cm_set_inverse_feed_rate_mode",
     "cm_override_enables", "cm_feed_rate_override_enable",
     "cm_feed_rate_override_factor", "cm_traverse_override_enable",
     "cm_traverse_override_factor", "cm_spindle_override_enable",
     "cm_spindle_override_factor"}

\* M50 P0 switches an override off, any other M50 switches it on
EnableWord(c) == IF c.gf.parameter # 0 /\ c.gn.parameter = 0 THEN 0 ELSE 1

\* the model after the call recorded in c holds what the call was given
ModelUpdated(c) ==
    /\ c.op = "cm_set_feed_rate"
       => IF gm.inverse_feed_rate_mode = TRUE
          THEN gm'.inverse_feed_rate = c.feed_rate
          ELSE gm'.feed_rate = to_mm(c.feed_rate)
    /\ c.op = "cm_set_units_mode" => gm'.units_mode = c.mode
    /\ c.op = "cm_set_distance_mode" => gm'.distance_mode = c.mode
    /\ c.op = "cm_select_plane" => gm'.select_plane = c.plane
    /\ c.op = "cm_set_path_control" => gm'.path_control = c.mode
    /\ c.op = "cm_set_inverse_feed_rate_mode" => gm'.inverse_feed_rate_mode = c.mode
    /\ c.op = "cm_override_enables"
       => /\ gm'.feed_rate_override_enable = c.flag
          /\ gm'.traverse_override_enable = c.flag
          /\ gm'.spindle_override_enable = c.flag
    /\ c.op = "cm_feed_rate_override_enable"
       => gm'.feed_rate_override_enable = EnableWord(c)
    /\ c.op = "cm_feed_rate_override_factor"
       => /\ gm'.feed_rate_override_enable = c.flag
          /\ gm'.feed_rate_override_factor = c.gn.parameter
    /\ c.op = "cm_traverse_override_enable"
       => gm'.traverse_override_enable = EnableWord(c)
    /\ c.op = "cm_traverse_override_factor"
       => /\ gm'.traverse_override_enable = c.flag
          /\ gm'.traverse_override_factor = c.gn.parameter
    /\ c.op = "cm_spindle_override_enable"
       => gm'.spindle_override_enable = EnableWord(c)
    /\ c.op = "cm_spindle_override_factor"
       => /\ gm'.spindle_override_enable = c.flag
          /\ gm'.spindle_override_factor = c.gn.parameter

\* C19: cm_set_feed_rate, cm_set_units_mode, cm_set_distance_mode,
\* cm_select_plane, cm_set_path_control, cm_set_inverse_feed_rate_mode and
\* the override setters have updated the G-code model when they return, append
\* no block to the planner ring and change nothing in a block already in it,
\* so a move planned earlier keeps the move time it was queued with.
C19_ModelCommandsImmediate ==
    [][call'.op \in ModelCommands
       => /\ ModelUpdated(call')
          /\ mb' = mb
          /\ hist'.qlog = hist.qlog
          /\ mm' = mm
          /\ mr' = mr]_vars

\* a feed rate override read while a traverse planned in millimetres waits in
\* the ring and the model has since gone over to inches and a feed rate
C19_Witness ==
    /\ call.op = "cm_feed_rate_override_factor"
    /\ gm.feed_rate_override_factor = 50 /\ gm.feed_rate_override_enable = 1
    /\ gm.units_mode = INCHES /\ gm.feed_rate = 2540
    /\ \E k \in 1..Len(mb) : /\ mb[k].move_type = MOVE_TYPE_ALINE
                               /\ mb[k].time.n > 0
                               /\ mb[k].target[AXIS_X] = 50

(***************************************************************************)
(* Properties of the park positions                                        *)
(***************************************************************************)
\* C17: cm_goto_g28_position submits a traverse to the intermediate point and
\* then a traverse to the stored position: when both succeed gm.position is
\* g28_position on every axis, whatever units mode and distance mode are in
\* force at the call; cm_goto_g30_position does the same with g30_position.
C17_GotoEndsAtStored ==
    /\ (call.op = "cm_goto_g28_position" /\ call.status = STAT_OK
           /\ hist.first = STAT_OK)
       => \A i \in Axis : gm.position[i] = gm.g28_position[i]
    /\ (call.op = "cm_goto_g30_position" /\ call.status = STAT_OK
           /\ hist.first = STAT_OK)
       => \A i \in Axis : gm.position[i] = gm.g30_position[i]

\* the same in millimetres and absolute distances only
C17_GotoEndsAtStoredAbsoluteMm ==
    /\ (call.op = "cm_goto_g28_position" /\ call.status = STAT_OK
           /\ hist.first = STAT_OK
           /\ gm.units_mode = MILLIMETERS /\ gm.distance_mode = ABSOLUTE_MODE)
       => \A i \in Axis : gm.position[i] = gm.g28_position[i]
    /\ (call.op = "cm_goto_g30_position" /\ call.status = STAT_OK
           /\ hist.first = STAT_OK
           /\ gm.units_mode = MILLIMETERS /\ gm.distance_mode = ABSOLUTE_MODE)
       => \A i \in Axis : gm.position[i] = gm.g30_position[i]

\* the main context is in the busy-wait of a return to a park position
Waiting == main \in {"g28_wait", "g30_wait"}

RingFull == mp_get_planner_buffers_available(St) = 0

\* C34: every call of cm_goto_g28_position or cm_goto_g30_position returns:
\* a main context busy-waiting for a planner buffer eventually gets one and
\* goes on, a feedhold in effect included.
C34_GotoReturns == Waiting ~> main = "idle"

\* the busy-wait on a full ring with a feedhold in effect: the runtime frees
\* nothing while the hold lasts, and the callback that would end the hold
\* runs from the main loop, which is in the busy-wait
WaitingInHold ==
    /\ Waiting
    /\ RingFull
    /\ cm.motion_state = MOTION_HOLD
    /\ cm.hold_state = FEEDHOLD_HOLD

\* from there no step leads out of the wait
StuckInHold == [][WaitingInHold => WaitingInHold']_vars

\* with no feedhold the running lines free their buffers and the call
\* returns
GotoReturnsWithoutHold ==
    (Waiting /\ cm.motion_state # MOTION_HOLD) ~> main = "idle"

\* whenever the busy-wait can be left, the second traverse can be made
WaitCanEnd ==
    (Waiting /\ ~RingFull)
    => TargetInRange((IF main = "g28_wait" THEN goto_g28_final(St)
                                           ELSE goto_g30_final(St)).s)

(***************************************************************************)
(* Properties of the sequencing callback                                   *)
(***************************************************************************)
IsCallback(op) == op = "cm_feedhold_sequencing_callback"

\* C3: on a run of the callback with feedhold_requested set, the feedhold is
\* honoured only in motion_state run with hold_state off, and then
\* motion_state becomes hold and hold_state sync; in any other state the
\* feedhold step changes neither; either way feedhold_requested is false when
\* the callback returns.
C3_FeedholdStep ==
    [][(IsCallback(call'.op) /\ cm.feedhold_requested = TRUE)
       => /\ IF cm.motion_state = MOTION_RUN /\ cm.hold_state = FEEDHOLD_OFF
             THEN /\ seq'.fh.motion_state = MOTION_HOLD
                  /\ seq'.fh.hold_state = FEEDHOLD_SYNC
             ELSE /\ seq'.fh.motion_state = cm.motion_state
                  /\ seq'.fh.hold_state = cm.hold_state
          /\ cm'.feedhold_requested = FALSE]_vars

\* a feedhold taken while a line was running
C3_Witness ==
    /\ IsCallback(call.op)
    /\ seq.pre.feedhold_requested = TRUE
    /\ seq.pre.motion_state = MOTION_RUN
    /\ seq.pre.hold_state = FEEDHOLD_OFF
    /\ seq.fh.hold_state = FEEDHOLD_SYNC
    /\ cm.feedhold_requested = FALSE

\* the states in which a queue flush may be performed
FlushAllowed(c) ==
    \/ c.motion_state = MOTION_STOP
    \/ c.motion_state = MOTION_HOLD /\ c.hold_state = FEEDHOLD_HOLD

\* C4: a run of the callback flushes the planner and clears
\* queue_flush_requested only if, at the flush step, motion_state is stop, or
\* motion_state is hold and hold_state is hold; in every other state the
\* planner is untouched and the request stays set; and no step at all clears
\* a set request without a flush being performed.
C4_QueueFlushStep ==
    [][/\ IsCallback(call'.op)
          => /\ seq'.flushed
                => /\ seq'.fh.queue_flush_requested = TRUE
                   /\ FlushAllowed(seq'.fh)
                   /\ seq'.qf.queue_flush_requested = FALSE
             /\ (seq'.fh.queue_flush_requested = TRUE /\ ~FlushAllowed(seq'.fh))
                => /\ ~seq'.flushed
                   /\ mb' = mb /\ mm' = mm
                   /\ hist'.flushed = hist.flushed
                   /\ cm'.queue_flush_requested = TRUE
       /\ (cm.queue_flush_requested = TRUE /\ cm'.queue_flush_requested = FALSE)
          => hist'.nflush # hist.nflush]_vars

\* a flush performed from a completed feedhold, discarding blocks
C4_Witness ==
    /\ IsCallback(call.op)
    /\ seq.flushed
    /\ seq.fh.motion_state = MOTION_HOLD
    /\ seq.fh.hold_state = FEEDHOLD_HOLD
    /\ hist.flushed # {}
    /\ cm.queue_flush_requested = FALSE

Decelerating(c) == c.motion_state = MOTION_HOLD /\ c.hold_state # FEEDHOLD_HOLD

\* a line running with no feedhold
RunningFree(c) == c.motion_state = MOTION_RUN /\ c.hold_state = FEEDHOLD_OFF

\* C31: a cycle-start request seen by the callback takes effect (hold_state
\* set to end_hold, the planner asked to resume) only when motion is stopped
\* or the feedhold has reached hold_state hold; seen while a line runs with
\* no hold it is cleared and hold_state is not changed; seen while a feedhold
\* is still decelerating it stays pending and the step changes nothing.
C31_CycleStartWhenStoppedOrHeld ==
    [][(IsCallback(call'.op) /\ seq'.qf.cycle_start_requested = TRUE)
       => /\ seq'.cs.hold_state # seq'.qf.hold_state
             => \/ seq'.qf.motion_state = MOTION_STOP
                \/ seq'.qf.hold_state = FEEDHOLD_HOLD
          /\ RunningFree(seq'.qf)
             => /\ cm'.cycle_start_requested = FALSE
                /\ seq'.cs.hold_state = seq'.qf.hold_state
          /\ Decelerating(seq'.qf)
             => /\ cm'.cycle_start_requested = TRUE
                /\ seq'.cs = seq'.qf
                /\ cm' = seq'.qf]_vars

\* a cycle start taken while the feedhold was still decelerating: the hold is
\* ended and the line runs on
CycleStartWhileDecelerating ==
    /\ IsCallback(call.op)
    /\ seq.qf.cycle_start_requested = TRUE
    /\ Decelerating(seq.qf)
    /\ seq.cs.hold_state = FEEDHOLD_END_HOLD
    /\ cm.cycle_start_requested = FALSE
    /\ cm.hold_state = FEEDHOLD_OFF
    /\ cm.motion_state = MOTION_RUN

\* a cycle start taken while a line ran with no hold
CycleStartWhileRunning ==
    /\ IsCallback(call.op)
    /\ seq.qf.cycle_start_requested = TRUE
    /\ RunningFree(seq.qf)
    /\ seq.cs.hold_state = FEEDHOLD_END_HOLD
    /\ cm.cycle_start_requested = FALSE

\* what the code does with a cycle-start request: it is taken whatever the
\* motion state and hold state are, unless a queue flush is left pending
CycleStartTakenInAnyState ==
    [][(IsCallback(call'.op) /\ seq'.qf.cycle_start_requested = TRUE
        /\ seq'.qf.queue_flush_requested = FALSE)
       => /\ seq'.cs.hold_state = FEEDHOLD_END_HOLD
          /\ cm'.cycle_start_requested = FALSE]_vars

\* C32: a run of the callback that finds a queue-flush request and a
\* cycle-start request both pending, in a state where the flush is allowed,
\* flushes the planner and re-syncs the positions while the hold is still in
\* effect and only then ends the hold; where the flush is not allowed both
\* requests stay pending and nothing is resumed; and no run of the callback
\* takes a cycle-start request while a queue-flush request is left pending.
C32_FlushBeforeCycleStart ==
    [][/\ (IsCallback(call'.op) /\ cm.queue_flush_requested = TRUE
              /\ cm.cycle_start_requested = TRUE)
          => /\ FlushAllowed(seq'.fh)
                => /\ seq'.flushed
                   /\ seq'.qf.queue_flush_requested = FALSE
                   /\ seq'.qf.cycle_start_requested = TRUE
                   /\ seq'.qf.hold_state = seq'.fh.hold_state
                   /\ seq'.cs.hold_state = FEEDHOLD_END_HOLD
                   /\ mb' = <<>>
                   /\ mm'.position = mr'.position
                   /\ gm'.position = mr'.position
                   /\ gm'.target = mr'.position
                   /\ cm'.cycle_start_requested = FALSE
                   /\ cm'.hold_state = FEEDHOLD_OFF
             /\ ~FlushAllowed(seq'.fh)
                => /\ ~seq'.flushed
                   /\ seq'.cs = seq'.qf
                   /\ cm'.queue_flush_requested = TRUE
                   /\ cm'.cycle_start_requested = TRUE
                   /\ mb' = mb
       /\ (IsCallback(call'.op) /\ seq'.cs # seq'.qf)
          => /\ seq'.qf.queue_flush_requested = FALSE
             /\ cm'.queue_flush_requested = FALSE
             /\ cm.queue_flush_requested = TRUE => seq'.flushed]_vars

\* both requests pending at a completed feedhold: the held blocks are
\* discarded, then the hold is ended on the empty planner
C32_Witness ==
    /\ IsCallback(call.op)
    /\ seq.pre.queue_flush_requested = TRUE
    /\ seq.pre.cycle_start_requested = TRUE
    /\ seq.fh.motion_state = MOTION_HOLD
    /\ seq.fh.hold_state = FEEDHOLD_HOLD
    /\ seq.flushed
    /\ hist.flushed # {}
    /\ seq.cs.hold_state = FEEDHOLD_END_HOLD
    /\ cm.hold_state = FEEDHOLD_OFF
    /\ cm.motion_state = MOTION_STOP
    /\ mb = <<>>

\* both requests pending while a line runs: neither is taken
C32_WitnessDeferred ==
    /\ IsCallback(call.op)
    /\ seq.pre.queue_flush_requested = TRUE
    /\ seq.pre.cycle_start_requested = TRUE
    /\ seq.fh.motion_state = MOTION_RUN
    /\ cm.queue_flush_requested = TRUE
    /\ cm.cycle_start_requested = TRUE

(***************************************************************************)
(* Properties of the planner queue as the canonical machine uses it        *)
(***************************************************************************)
\* the events of the runtime log that come before its j-th event
Earlier(j) == {hist.xlog[i] : i \in 1..(j - 1)}

\* C6: the callbacks of the commands the canonical machine queued run in the
\* order the commands were queued, each after every motion block queued
\* before it has been executed (or was discarded by a flush) and before any
\* motion block queued after it starts.
C6_CommandsInQueueOrder ==
    \A j \in 1..Len(hist.xlog) :
        LET e == hist.xlog[j]
        IN  /\ hist.qlog[e[2]] = IF e[1] = "cmd" THEN MOVE_TYPE_COMMAND
                                                 ELSE MOVE_TYPE_ALINE
            /\ \A d \in Earlier(j) : d[2] <= e[2] /\ d # e
            /\ e[1] = "cmd"
               => \A m \in 1..(e[2] - 1) :
                     hist.qlog[m] = MOVE_TYPE_ALINE
                     => <<"end", m>> \in Earlier(j) \/ m \in hist.flushed

\* a spindle command that ran between the traverse queued before it and the
\* traverse queued after it
C6_Witness ==
    \E i, j, k \in 1..Len(hist.xlog) :
        /\ i < j /\ j < k
        /\ hist.xlog[i][1] = "end"
        /\ hist.xlog[j][1] = "cmd"
        /\ hist.xlog[k][1] = "start"
        /\ hist.xlog[i][2] < hist.xlog[j][2]
        /\ hist.xlog[j][2] < hist.xlog[k][2]
        /\ gm.spindle_mode = SPINDLE_CW

\* C9: once cm_alarm has run, machine_state is alarm and a straight traverse
\* is rejected, returning a status other than STAT_OK and appending no block
\* to the planner, until the machine is initialised again.
C9_AlarmRejectsMotion ==
    [][(hist.alarmed /\ call'.op = "cm_straight_traverse")
       => /\ cm.machine_state = MACHINE_ALARM
          /\ call'.status # STAT_OK
          /\ mb' = mb
          /\ hist'.qlog = hist.qlog]_vars

\* C10: when cm_flush_planner has returned, called directly or from the
\* sequencing callback, the planner ring is empty and on every axis
\* gm.position, gm.target and the planner's position all equal the runtime's
\* machine position.
C10_FlushResyncsPosition ==
    (call.op = "cm_flush_planner" \/ (IsCallback(call.op) /\ seq.flushed))
    => /\ mb = <<>>
       /\ \A i \in Axis :
             /\ gm.position[i] = mp_get_runtime_machine_position(St, i)
             /\ gm.target[i] = gm.position[i]
             /\ mm.position[i] = mp_get_runtime_machine_position(St, i)

\* a flush from a feedhold that had stopped the runtime part-way along a
\* line, with that line and more discarded
C10_Witness ==
    /\ IsCallback(call.op)
    /\ seq.flushed
    /\ mr.braked
    /\ Cardinality(hist.flushed) >= 2
    /\ mb = <<>>
    /\ gm.position = mr.position
    /\ \E i \in Axis : mr.position[i] # 0

(***************************************************************************)
(* Properties of the trapezoid solver                                      *)
(***************************************************************************)
\* mp_calculate_trapezoid has returned on the block
Returned == bf.state = "called" /\ bf.returned

\* the entry conditions the function states for a block
EntryConditions(b) ==
    /\ b.length > 0
    /\ b.entry_velocity <= b.cruise_velocity
    /\ b.exit_velocity <= b.cruise_velocity

VelocitiesOrdered(b) ==
    /\ b.entry_velocity <= b.cruise_velocity
    /\ b.exit_velocity <= b.cruise_velocity

KeepsVelocities(b) == b.path \in {"B2", "B", "T1", "T2", "H1", "H2", "fit"}

C8_SectionsAddUp ==
    Returned
    => /\ bf.head_length >= 0 /\ bf.body_length >= 0 /\ bf.tail_length >= 0
       /\ bf.head_length + bf.body_length + bf.tail_length = bf.length
       /\ bf.length = bf.req.length

\* a requested fit whose short body was shared between head and tail
C8_Witness ==
    /\ Returned
    /\ bf.path = "fit"
    /\ bf.body_length = 0
    /\ bf.head_length > mp_get_target_length(bf.entry_velocity, bf.cruise_velocity, bf)
    /\ bf.tail_length > mp_get_target_length(bf.exit_velocity, bf.cruise_velocity, bf)
    /\ bf.head_length + bf.tail_length = bf.length

\* the block as it came takes no longer than t at its cruise velocity
RunsWithin(t) == bf.req.cruise_velocity > 0 /\ bf.req.length <= t * bf.req.cruise_velocity

\* ... and less than t
RunsUnder(t) == bf.req.cruise_velocity > 0 /\ bf.req.length < t * bf.req.cruise_velocity

\* C22: a block with length / cruise_velocity <= NOM_SEGMENT_TIME comes back
\* body-only (body_length = length, head and tail 0) with exit_velocity =
\* max(0, min(cruise_velocity, entry_velocity - delta_vmax)); when also
\* length / cruise_velocity < MIN_SEGMENT_TIME_PLUS_MARGIN the cruise velocity
\* is first replaced by length / MIN_SEGMENT_TIME_PLUS_MARGIN; the test is the
\* first one and no later case is taken once it matches.
C22_ShortBlockSingleSegment ==
    (Returned /\ RunsWithin(NOM_SEGMENT_TIME))
    => /\ bf.path \in {"B2", "F"}
       /\ bf.body_length = bf.length /\ bf.head_length = 0 /\ bf.tail_length = 0
       /\ bf.length = bf.req.length
       /\ bf.entry_velocity = bf.req.entry_velocity
       /\ bf.cruise_velocity
             = IF RunsUnder(MIN_SEGMENT_TIME_PLUS_MARGIN)
               THEN bf.req.length \div MIN_SEGMENT_TIME_PLUS_MARGIN
               ELSE bf.req.cruise_velocity
       /\ bf.exit_velocity
             = max(0, min(bf.cruise_velocity, bf.entry_velocity - bf.delta_vmax))

\* a block too short for a minimum segment whose three velocities matched:
\* the cruise velocity came down and the exit velocity with it
C22_Witness ==
    /\ Returned
    /\ RunsUnder(MIN_SEGMENT_TIME_PLUS_MARGIN)
    /\ bf.req.entry_velocity = bf.req.cruise_velocity
    /\ bf.req.exit_velocity = bf.req.cruise_velocity
    /\ bf.cruise_velocity < bf.req.cruise_velocity
    /\ bf.exit_velocity < bf.req.exit_velocity
    /\ bf.body_length = bf.length

\* the block as it was handed to mp_calculate_trapezoid
Requested ==
    [bf EXCEPT !.length = bf.req.length,
               !.entry_velocity = bf.req.entry_velocity,
               !.cruise_velocity = bf.req.cruise_velocity,
               !.exit_velocity = bf.req.exit_velocity,
               !.head_length = 0, !.body_length = 0, !.tail_length = 0]

\* a block that got past the single-segment and all-match tests and is no
\* longer than the three minimum sections together
ShortCase ==
    /\ bf.state = "called"
    /\ ~IsSingleSegment(Requested)
    /\ ~IsBodyOnly(Requested)
    /\ IsShort(Requested)

C35_WitnessHead ==
    /\ ShortCase /\ Returned
    /\ bf.req.entry_velocity < bf.req.exit_velocity
    /\ bf.req.cruise_velocity > bf.req.exit_velocity
    /\ bf.head_length = bf.req.length
    /\ bf.cruise_velocity = bf.req.exit_velocity

\* a short block with equal ends, left to the later cases
C35_WitnessEqualEnds ==
    /\ ShortCase
    /\ bf.req.entry_velocity = bf.req.exit_velocity
    /\ bf.path \in {"HT", "HT-B", "HT2", "fit"}

\* the tests of lines 149-218 that lead a block to the rate-limited cases
RateLimitedCase ==
    /\ bf.state = "called"
    /\ ~RunsWithin(NOM_SEGMENT_TIME)
    /\ ~IsBodyOnly(Requested)
    /\ ~(IsShort(Requested) /\ Requested.entry_velocity # Requested.exit_velocity)
    /\ LET b == SetHeadAndTail(Requested)
       IN  b.length < b.head_length + b.tail_length

SymmetricCase ==
    /\ RateLimitedCase
    /\ WithinVelocityTolerance(fabs(bf.req.entry_velocity - bf.req.exit_velocity),
                               bf.req.entry_velocity)

\* C23: in the symmetric rate-limited case the block comes back with
\* head_length = tail_length: either both are length/2, the body is 0 and
\* the cruise velocity is min(cruise_vmax, target velocity from the entry
\* velocity over length/2), or, when length/2 is below the minimum head length
\* of that cruise velocity, both are 0, the body is the whole length and the
\* entry, cruise and exit velocities are equal.
C23_SymmetricHeadAndTail ==
    SymmetricCase
    => LET half == bf.req.length \div 2
           cruise == min(bf.cruise_vmax,
                         mp_get_target_velocity(bf.req.entry_velocity, half, bf))
       IN  /\ bf.returned
           /\ bf.head_length = bf.tail_length
           /\ IF half < MIN_SEGMENT_TIME_PLUS_MARGIN * (cruise + bf.req.entry_velocity)
              THEN /\ bf.head_length = 0
                   /\ bf.body_length = bf.length
                   /\ bf.entry_velocity = bf.cruise_velocity
                   /\ bf.exit_velocity = bf.cruise_velocity
              ELSE /\ bf.head_length = half
                   /\ bf.body_length = 0
                   /\ bf.cruise_velocity = cruise

\* a symmetric block split in two halves below the requested cruise velocity
C23_Witness ==
    /\ SymmetricCase
    /\ bf.head_length > 0
    /\ bf.head_length = bf.tail_length
    /\ bf.cruise_velocity < bf.req.cruise_velocity

\* a symmetric block too short for a head: folded into a body
C23_WitnessBody ==
    /\ SymmetricCase
    /\ bf.head_length = 0
    /\ bf.body_length = bf.length
    /\ bf.entry_velocity # bf.req.entry_velocity

\* the cases are the ones the function took
SymmetricCaseIsPath == SymmetricCase <=> (bf.state = "called" /\ bf.path \in {"HT", "HT-B"})

AsymmetricCase == RateLimitedCase /\ ~SymmetricCase

\* cruise_vmax between max(entry, exit) and 10 * max(entry, exit)
VmaxInRange ==
    LET m == max(bf.req.entry_velocity, bf.req.exit_velocity)
    IN  m <= bf.cruise_vmax /\ bf.cruise_vmax <= 10 * m

\* C24: in the asymmetric rate-limited case the do-while ends after at most
\* 8 passes, the computed cruise velocity then within
\* TRAPEZOID_ITERATION_ERROR_PERCENT of the previous one, for every block
\* whose cruise_vmax lies between max(entry, exit) and 10 * max(entry, exit);
\* stated here for the blocks that also meet the function's entry conditions
\* and ask for no more than cruise_vmax.
C24_IterationConverges ==
    (/\ AsymmetricCase
     /\ VmaxInRange
     /\ EntryConditions(Requested)
     /\ bf.req.cruise_velocity <= bf.cruise_vmax)
    => /\ bf.returned
       /\ bf.passes <= 8

\* the asymmetric blocks that do come back took at least one pass and no
\* more than MaxIter
C24_ReturnedWithinPasses ==
    (AsymmetricCase /\ bf.returned) => (1 <= bf.passes /\ bf.passes <= MaxIter)

MotionCall(op) == op \in {"cm_straight_traverse", "cm_straight_feed"}

(***************************************************************************)
(* Properties of the alarm                                                 *)
(***************************************************************************)
\* C40: from cm_alarm until the next canonical_machine_init, machine_state is
\* alarm: motion calls, cm_cycle_start and executed program_finalize commands
\* do not overwrite it.
C40_AlarmStays == hist.alarmed => cm.machine_state = MACHINE_ALARM

\* the alarm is left only by a cycle start, by a finalisation or by a reset
AlarmLeftBy ==
    [][(cm.machine_state = MACHINE_ALARM /\ cm'.machine_state # MACHINE_ALARM)
       => \/ MotionCall(call'.op) /\ call'.planner # NotCalled
                                  /\ cm'.machine_state = MACHINE_CYCLE
          \/ call'.op = "exec" /\ mb' = Tail(mb) /\ Len(mb) = 1
                               /\ cm.cycle_state = CYCLE_STARTED
                               /\ cm'.machine_state = MACHINE_PROGRAM_STOP
          \/ call'.op = "canonical_machine_init"]_vars

\* a traverse made in the alarm put the machine in the cycle
AlarmLeftByCycleStart ==
    /\ hist.alarmed
    /\ call.op = "cm_straight_traverse" /\ call.status = STAT_OK
    /\ cm.machine_state = MACHINE_CYCLE

\* the alarm raised during a cycle was replaced by program stop when the ring
\* ran empty
AlarmLeftByCycleEnd ==
    /\ hist.alarmed
    /\ call.op = "exec"
    /\ mb = <<>>
    /\ cm.machine_state = MACHINE_PROGRAM_STOP

\* the machine in the alarm with nothing having touched it since
AlarmStanding ==
    /\ hist.alarmed
    /\ call.op = "cm_alarm"
    /\ cm.machine_state = MACHINE_ALARM

(***************************************************************************)
(* Properties of the runtime work offset                                   *)
(***************************************************************************)
\* C39: an executed runtime-offset command installs as runtime work offset
\* the effective offset (cfg.offset[coord_system] plus the enabled origin
\* offset) the model had when the command was enqueued, whatever G92,
\* G92.1, G92.2, G92.3 or G10 calls came between.
C39_InstalledOffsetAsEnqueued ==
    [][Runs({"_exec_offset"}) => mr'.work_offset = Head(mb).enqueued]_vars

\* what the command installs is the offset of the model as it stands when
\* the command is executed
InstalledOffsetAsExecuted ==
    [][Runs({"_exec_offset"})
       => mr'.work_offset = OffsetOfModel(St, Head(mb).int_val)]_vars

\* a runtime-offset command at the head of the ring whose offset at the
\* time of the call is no longer the offset of the model
OffsetChangedWhileQueued ==
    /\ Len(mb) > 0 /\ Head(mb).move_type = MOVE_TYPE_COMMAND
    /\ Head(mb).cm_exec = "_exec_offset"
    /\ Head(mb).enqueued # OffsetOfModel(St, Head(mb).int_val)

\* the same after a G10 alone
OffsetChangedByCoordOffsets ==
    /\ OffsetChangedWhileQueued
    /\ call.op = "cm_set_coord_offsets"
    /\ gm.origin_offset_enable = 0
    /\ Len(mb) = 1

\* a runtime-offset command executed with the model as it was at the call
OffsetInstalledUnchanged ==
    /\ Executed("_exec_offset", G54 + 1)
    /\ mr.work_offset = OffsetOfModel(St, G54 + 1)
    /\ mr.work_offset[AXIS_X] # 0

(***************************************************************************)
(* Properties of the cycle state                                           *)
(***************************************************************************)
SpecialCycle == cm.cycle_state \in {CYCLE_HOMING, CYCLE_PROBE, CYCLE_JOG}


\* C37: cm_cycle_start sets machine_state to cycle and changes cycle_state
\* only from off to started; a homing, probe or jog cycle_state is kept by
\* it, and so by every motion call and by every run of the sequencing
\* callback made during such a cycle.
C37_CycleStartKeepsCycle ==
    [][/\ (MotionCall(call'.op) \/ IsCallback(call'.op))
          => /\ SpecialCycle => cm'.cycle_state = cm.cycle_state
             /\ cm'.cycle_state # cm.cycle_state
                => /\ cm.cycle_state = CYCLE_OFF
                   /\ cm'.cycle_state = CYCLE_STARTED
                   /\ cm'.machine_state = MACHINE_CYCLE
       /\ (MotionCall(call'.op) /\ call'.planner # NotCalled)
          => /\ cm'.machine_state = MACHINE_CYCLE
             /\ cm'.cycle_state = IF cm.cycle_state = CYCLE_OFF THEN CYCLE_STARTED
                                                                ELSE cm.cycle_state
       /\ (IsCallback(call'.op) /\ CycleStartTaken([cm |-> seq'.qf]))
          => /\ seq'.cs.machine_state = MACHINE_CYCLE
             /\ seq'.cs.cycle_state = IF cm.cycle_state = CYCLE_OFF THEN CYCLE_STARTED
                                                                    ELSE cm.cycle_state]_vars

\* a feed submitted during a homing cycle
C37_Witness ==
    /\ call.op = "cm_straight_feed"
    /\ call.planner = STAT_OK
    /\ cm.cycle_state = CYCLE_HOMING
    /\ cm.machine_state = MACHINE_CYCLE

\* a feed submitted during a jog cycle with a line still queued
C37_WitnessJog ==
    /\ call.op = "cm_straight_feed"
    /\ call.planner = STAT_OK
    /\ cm.cycle_state = CYCLE_JOG
    /\ Len(mb) = 2

\* a cycle start taken by the callback during a probe cycle
C37_WitnessCallback ==
    /\ IsCallback(call.op)
    /\ CycleStartTaken([cm |-> seq.qf])
    /\ seq.cs.cycle_state = CYCLE_PROBE
    /\ seq.cs.machine_state = MACHINE_CYCLE

\* a feed that started the cycle
C37_WitnessStarted ==
    /\ call.op = "cm_straight_feed"
    /\ call.planner = STAT_OK
    /\ cm.cycle_state = CYCLE_STARTED
    /\ cm.machine_state = MACHINE_CYCLE

\* the canonical machine as _program_finalize leaves it
Finalized(c, machine_state) ==
    /\ c.machine_state = machine_state
    /\ c.motion_state = MOTION_STOP
    /\ c.cycle_state = CYCLE_OFF
    /\ c.hold_state = FEEDHOLD_OFF
    /\ c.cycle_start_requested = FALSE

\* the blocks queued before block id have all been run
RunBefore(id) ==
    \A k \in 1..(id - 1) :
        \E n \in 1..Len(hist.xlog) :
            hist.xlog[n][2] = k /\ hist.xlog[n][1] \in {"cmd", "end"}

\* the step is the runtime finishing the last block of the ring, which is
\* not a program_finalize command: cm_cycle_end is called
CycleEndCalled ==
    /\ call'.op = "exec"
    /\ Len(mb) = 1 /\ mb' = Tail(mb)
    /\ ~(Head(mb).move_type = MOVE_TYPE_COMMAND /\ Head(mb).cm_exec = "_program_finalize")

\* C38: a program_finalize command runs after all blocks queued before it and
\* leaves machine_state at its argument, motion_state stop, cycle_state off,
\* hold_state off and cycle_start_requested false; cm_cycle_end does the
\* same with program_stop when cycle_state is started and changes nothing
\* when it is not.
C38_ProgramFinalize ==
    [][/\ Runs({"_program_finalize"})
          => /\ Finalized(cm', Head(mb).int_val)
             /\ RunBefore(Head(mb).id)
       /\ CycleEndCalled
          => IF cm.cycle_state = CYCLE_STARTED
             THEN Finalized(cm', MACHINE_PROGRAM_STOP)
             ELSE cm' = cm]_vars

\* the program end reached behind a line and the commands queued with it
C38_Witness ==
    /\ Executed("_program_finalize", MACHINE_PROGRAM_END)
    /\ Finalized(cm, MACHINE_PROGRAM_END)
    /\ \E n \in 1..Len(hist.xlog) : hist.xlog[n][1] = "end"
    /\ Len(hist.xlog) >= 5

\* a program stop executed while a feedhold was being synchronised
C38_WitnessHold ==
    /\ Executed("_program_finalize", MACHINE_PROGRAM_STOP)
    /\ call.hold_state = FEEDHOLD_SYNC
    /\ Finalized(cm, MACHINE_PROGRAM_STOP)

\* the last line of a started cycle ended: cm_cycle_end stopped the program
C38_WitnessCycleEnd ==
    /\ call.op = "exec"
    /\ Len(mb) = 0
    /\ Len(hist.xlog) > 0 /\ hist.xlog[Len(hist.xlog)][1] = "end"
    /\ Finalized(cm, MACHINE_PROGRAM_STOP)

\* the last line of a homing cycle ended: cm_cycle_end left the cycle alone
C38_WitnessHoming ==
    /\ call.op = "exec"
    /\ Len(mb) = 0
    /\ Len(hist.xlog) > 0 /\ hist.xlog[Len(hist.xlog)][1] = "end"
    /\ cm.cycle_state = CYCLE_HOMING
    /\ cm.machine_state = MACHINE_CYCLE
    /\ cm.motion_state = MOTION_RUN

(***************************************************************************)
(* Properties of the combined state                                        *)
(***************************************************************************)
CombinedStateRead == call.op = "cm_get_combined_state"

\* C28: the value cm_get_combined_state returns is decided by machine_state,
\* motion_state and cycle_state alone, whatever combined_state held before:
\* outside the cycle it is machine_state; in the cycle it is homing, probe or
\* jog when cycle_state says so, and otherwise run or hold according to
\* motion_state.
C28_CombinedStateProjection ==
    CombinedStateRead
    => IF cm.machine_state # MACHINE_CYCLE THEN call.value = cm.machine_state
       ELSE IF cm.cycle_state = CYCLE_HOMING THEN call.value = COMBINED_HOMING
       ELSE IF cm.cycle_state = CYCLE_PROBE THEN call.value = COMBINED_PROBE
       ELSE IF cm.cycle_state = CYCLE_JOG THEN call.value = COMBINED_JOG
       ELSE /\ call.value \in {COMBINED_RUN, COMBINED_HOLD}
            /\ cm.motion_state = MOTION_RUN => call.value = COMBINED_RUN
            /\ cm.motion_state = MOTION_HOLD => call.value = COMBINED_HOLD

\* the same with the stopped cycle left aside: what the tests of lines
\* 151-158 do decide
C28_CombinedStateWhenDecided ==
    (CombinedStateRead
     /\ (cm.machine_state = MACHINE_CYCLE
         => (cm.motion_state # MOTION_STOP \/ SpecialCycle)))
    => IF cm.machine_state # MACHINE_CYCLE THEN call.value = cm.machine_state
       ELSE IF cm.cycle_state = CYCLE_HOMING THEN call.value = COMBINED_HOMING
       ELSE IF cm.cycle_state = CYCLE_PROBE THEN call.value = COMBINED_PROBE
       ELSE IF cm.cycle_state = CYCLE_JOG THEN call.value = COMBINED_JOG
       ELSE IF cm.motion_state = MOTION_RUN THEN call.value = COMBINED_RUN
       ELSE call.value = COMBINED_HOLD

\* read in a cycle whose motion is stopped: the value left from before
StaleRead(value) ==
    /\ CombinedStateRead
    /\ cm.machine_state = MACHINE_CYCLE
    /\ cm.motion_state = MOTION_STOP
    /\ cm.cycle_state = CYCLE_STARTED
    /\ call.value = value

(***************************************************************************)
(* Properties of the move times                                            *)
(***************************************************************************)
\* the last call queued a line and kept the position it started from
LineQueued ==
    /\ call.op \in {"cm_straight_feed", "cm_straight_traverse"}
    /\ call.planner = STAT_OK
    /\ "position_before" \in DOMAIN call

Delta(i) == fabs(gm.target[i] - call.position_before[i])

IsFeed == call.op = "cm_straight_feed"

\* |target[i] - position[i]| over the axis limit of the kind of move
AxisLimitTime(i) ==
    Rat(Delta(i), IF IsFeed THEN cfg.a[i].feedrate_max ELSE cfg.a[i].velocity_max)

PathLength(axes) ==
    LET RECURSIVE Sum(_)
        Sum(S) == IF S = {} THEN 0
                  ELSE LET i == CHOOSE j \in S : TRUE
                       IN  square(Delta(i)) + Sum(S \ {i})
    IN  sqrt(Sum(axes))

LinearAxes == {AXIS_X, AXIS_Y, AXIS_Z}

\* the times the optimal time is the largest of
MoveTimeCandidates ==
    {AxisLimitTime(i) : i \in Axis}
    \cup (IF IsFeed /\ gm.inverse_feed_rate_mode = TRUE
          THEN {Rat(gm.inverse_feed_rate, 1)} ELSE {})
    \cup (IF IsFeed /\ gm.inverse_feed_rate_mode # TRUE
          THEN {Rat(PathLength(LinearAxes), gm.feed_rate)} ELSE {})
    \cup (IF IsFeed /\ gm.inverse_feed_rate_mode # TRUE /\ PathLength(LinearAxes) = 0
          THEN {Rat(PathLength(Axis \ LinearAxes), gm.feed_rate)} ELSE {})

Largest(x, S) == (\E y \in S : RatEQ(x, y)) /\ (\A y \in S : RatLE(y, x))

Smallest(x, S) == (\E y \in S : RatEQ(x, y)) /\ (\A y \in S : RatLE(x, y))

Participating == {i \in Axis : Delta(i) # 0}

\* C33: for a straight traverse the optimal time, which the queued line
\* carries, equals the minimum time left in gm.min_time, and that minimum
\* time is the time of the slowest participating axis at its velocity_max.
C33_TraverseOptimalIsMinimum ==
    (LineQueued /\ ~IsFeed)
    => /\ RatEQ(mb[Len(mb)].time, gm.min_time)
       /\ Largest(gm.min_time, {AxisLimitTime(i) : i \in Participating})

\* what holds of a traverse: the optimal time is the time of the slowest
\* participating axis, and the minimum time is the smallest of the six axis
\* times, which is zero as soon as one axis stays where it is
TraverseTimes ==
    (LineQueued /\ ~IsFeed)
    => /\ Largest(mb[Len(mb)].time, {AxisLimitTime(i) : i \in Participating})
       /\ Smallest(gm.min_time, {AxisLimitTime(i) : i \in Axis})
       /\ Participating # Axis => gm.min_time.n = 0

\* a traverse of X and Y alone: the line takes the time of Y, the minimum
\* time is zero
TraverseMinimumZero ==
    /\ LineQueued /\ ~IsFeed
    /\ Participating = {AXIS_X, AXIS_Y}
    /\ RatEQ(mb[Len(mb)].time, AxisLimitTime(AXIS_Y))
    /\ mb[Len(mb)].time.n > 0
    /\ gm.min_time.n = 0

\* a traverse of all six axes: the minimum time is that of the quickest axis
\* and lies below the optimal time
TraverseMinimumOfQuickest ==
    /\ LineQueued /\ ~IsFeed
    /\ Participating = Axis
    /\ gm.min_time.n > 0
    /\ ~RatLE(mb[Len(mb)].time, gm.min_time)

\* straight feeds and traverses, with the runtime consuming the ring
NextMotion ==
    \/ StraightFeed
    \/ StraightTraverse
    \/ SetFeedRate
    \/ ExecCommand
    \/ ExecLineStart
    \/ ExecLineEnd

Spec == Init /\ [][NextMotion]_vars

\* motion calls around an alarm and a reset
NextAlarm ==
    \/ Traverse
    \/ Alarm
    \/ Reinit
    \/ ExecCommand
    \/ ExecLineStart
    \/ ExecLineEnd

SpecAlarm == Init /\ [][NextAlarm]_vars

\* feedhold, queue flush and cycle start around running traverses
NextHold ==
    \/ Traverse
    \/ RequestFeedhold
    \/ RequestQueueFlush
    \/ RequestCycleStart
    \/ SequencingCallback
    \/ ExecCommand
    \/ ExecLineStart
    \/ ExecLineEnd
    \/ ExecHoldSync
    \/ ExecHoldDecel

SpecHold == Init /\ [][NextHold]_vars

\* queued commands between traverses, with a flush
NextQueue ==
    \/ Traverse
    \/ SpindleControl
    \/ SelectTool
    \/ FlushPlanner
    \/ ExecCommand
    \/ ExecLineStart
    \/ ExecLineEnd

SpecQueue == Init /\ [][NextQueue]_vars

\* the trapezoid solver applied to each block of ZoidInputs
NextZoid == CalculateTrapezoid

SpecZoid == InitZoid /\ [][NextZoid]_vars


\* the effective offset under every coordinate system and flag
NextOffsets ==
    \/ GetCoordOffsetVector
    \/ SetAbsoluteOverride
    \/ SetCoordSystem
    \/ SetOriginOffsets
    \/ ResetOriginOffsets
    \/ SuspendOriginOffsets
    \/ ResumeOriginOffsets
    \/ ExecCommand

SpecOffsets == Init /\ [][NextOffsets]_vars

\* G92 away from the origin, in both units modes
NextOrigin ==
    \/ Move
    \/ SetUnitsMode
    \/ SetAbsoluteOverride
    \/ SetOriginOffsets
    \/ ExecCommand
    \/ ExecLineStart
    \/ ExecLineEnd

SpecOrigin == Init /\ [][NextOrigin]_vars

\* words for timed moves: X30 Y40, A30 B40, X30 A30 B40, and all six axes
TimedInputs ==
    {<<[i \in Axis |-> IF i = AXIS_X THEN 30 ELSE IF i = AXIS_Y THEN 40 ELSE 0],
       [i \in Axis |-> IF i \in {AXIS_X, AXIS_Y} THEN 1 ELSE 0]>>,
     <<[i \in Axis |-> IF i = AXIS_A THEN 30 ELSE IF i = AXIS_B THEN 40 ELSE 0],
       [i \in Axis |-> IF i \in {AXIS_A, AXIS_B} THEN 1 ELSE 0]>>,
     <<[i \in Axis |-> IF i \in {AXIS_X, AXIS_A} THEN 30
                       ELSE IF i = AXIS_B THEN 40 ELSE 0],
       [i \in Axis |-> IF i \in {AXIS_X, AXIS_A, AXIS_B} THEN 1 ELSE 0]>>,
     <<[i \in Axis |-> 10 * i], [i \in Axis |-> 1]>>}

\* F words for timed moves: below and above the rotary feed rate limit
TimedFeedRates == {20, 100}

FeedRateWord ==
    /\ main = "idle"
    /\ \E f \in TimedFeedRates :
          CommitCall(cm_set_feed_rate(St, f),
                     [op |-> "cm_set_feed_rate", status |-> STAT_OK,
                      planner |-> NotCalled, feed_rate |-> f])
    /\ UNCHANGED <<main, bf>>

\* a feed and a traverse whose record keeps the position before the call
TimedFeed ==
    /\ main = "idle"
    /\ mp_get_planner_buffers_available(St) # 0
    /\ \E in \in TimedInputs :
          LET r == cm_straight_feed(St, in[1], in[2])
          IN  /\ TargetInRange(r.s) /\ Room(r.s)
              /\ CommitCall(r.s, [op |-> "cm_straight_feed", status |-> r.status,
                                  planner |-> r.planner,
                                  position_before |-> gm.position])
    /\ UNCHANGED <<main, bf>>

TimedTraverse ==
    /\ main = "idle"
    /\ mp_get_planner_buffers_available(St) # 0
    /\ \E in \in TimedInputs :
          LET r == cm_straight_traverse(St, in[1], in[2])
          IN  /\ TargetInRange(r.s) /\ Room(r.s)
              /\ CommitCall(r.s, [op |-> "cm_straight_traverse", status |-> r.status,
                                  planner |-> r.planner,
                                  position_before |-> gm.position])
    /\ UNCHANGED <<main, bf>>

\* G54 offsets of X in units of 2^-22 mm: 0, 2.5 mm and 10 mm
SingleOffsets == {0, 10485760, 41943040}

\* X words in units of 2^-22: the floats nearest 5, 6.727 and 14.845
SingleWords == {20971520, 28215084, 62264444}

InitSingle ==
    /\ \E c \in SingleOffsets :
          LET s == canonical_machine_init(
                       [PowerOn EXCEPT !.cfg.offset =
                           [k \in G53..COORD_SYSTEM_MAX |->
                               IF k = G54 THEN Vec(c, 0) ELSE ZeroVec]])
          IN  /\ cm = s.cm
              /\ gm = s.gm
              /\ cfg = s.cfg
              /\ mb = s.mb
              /\ mm = s.mm
              /\ mr = s.mr
              /\ hist = s.hist
    /\ main = "idle"
    /\ call = [op |-> "canonical_machine_init", status |-> STAT_OK, planner |-> NotCalled]
    /\ seq = SeqNone
    /\ bf = BfNone

\* the first step of a motion call: cm_set_target with the X word
SetTarget ==
    /\ main = "idle"
    /\ \E v \in SingleWords :
          CommitCall(cm_set_target_single(St, Vec(v, 0), Vec(1, 0)),
                     [op |-> "cm_set_target", status |-> STAT_OK,
                      planner |-> NotCalled, target |-> Vec(v, 0),
                      flags |-> Vec(1, 0)])
    /\ main' = "line"
    /\ UNCHANGED bf

\* the last step of the motion call: the status MP_LINE came back with, of
\* which this specification keeps nothing else, handed to
\* cm_set_gcode_model_endpoint_position
SetEndpointPosition ==
    /\ main = "line"
    /\ \E status \in {STAT_OK, STAT_MINIMUM_LENGTH_MOVE_ERROR} :
          CommitCall(cm_set_gcode_model_endpoint_position(St, status),
                     [op |-> "cm_set_gcode_model_endpoint_position",
                      status |-> status, planner |-> status,
                      target |-> call.target, flags |-> call.flags])
    /\ main' = "idle"
    /\ UNCHANGED bf

\* radii of axis A in radius mode
RadiusValues == {0, 2}

\* axis A configured in radius mode, with either radius
InitRadius ==
    /\ \E radius \in RadiusValues :
          LET s == canonical_machine_init(
                       [PowerOn EXCEPT !.cfg.a[AXIS_A].axis_mode = AXIS_RADIUS,
                                       !.cfg.a[AXIS_A].radius = radius])
          IN  /\ cm = s.cm
              /\ gm = s.gm
              /\ cfg = s.cfg
              /\ mb = s.mb
              /\ mm = s.mm
              /\ mr = s.mr
              /\ hist = s.hist
    /\ main = "idle"
    /\ call = [op |-> "canonical_machine_init", status |-> STAT_OK, planner |-> NotCalled]
    /\ seq = SeqNone
    /\ bf = BfNone

\* words A5, A-5, X5 A5 and X5; a word on A is never zero, so that a zero
\* radius leaves an infinity and not the not-a-number of 0 / 0
RadiusInputs ==
    {<<[i \in Axis |-> IF i = AXIS_A THEN 5 ELSE 0],
       [i \in Axis |-> IF i = AXIS_A THEN 1 ELSE 0]>>,
     <<[i \in Axis |-> IF i = AXIS_A THEN -5 ELSE 0],
       [i \in Axis |-> IF i = AXIS_A THEN 1 ELSE 0]>>,
     <<[i \in Axis |-> IF i \in {AXIS_X, AXIS_A} THEN 5 ELSE 0],
       [i \in Axis |-> IF i \in {AXIS_X, AXIS_A} THEN 1 ELSE 0]>>,
     <<[i \in Axis |-> IF i = AXIS_X THEN 5 ELSE 0],
       [i \in Axis |-> IF i = AXIS_X THEN 1 ELSE 0]>>}

\* the finite targets stay on the table
FiniteTargetInRange(s) ==
    \A i \in Axis : isfinite(s.gm.target[i]) => fabs(s.gm.target[i]) <= MaxPos

FinitePosition == \A i \in Axis : isfinite(gm.position[i])

\* a straight traverse with a word for the radius-mode axis, made from a
\* finite position; its record keeps the words, the target and position
\* before it and the number of blocks queued so far
RadiusTraverse ==
    /\ main = "idle"
    /\ FinitePosition
    /\ mp_get_planner_buffers_available(St) # 0
    /\ \E in \in RadiusInputs :
          LET r == cm_straight_traverse(St, in[1], in[2])
          IN  /\ FiniteTargetInRange(r.s) /\ Room(r.s)
              /\ CommitCall(r.s, [op |-> "cm_straight_traverse", status |-> r.status,
                                  planner |-> r.planner,
                                  target |-> in[1], flags |-> in[2],
                                  position_before |-> gm.position,
                                  target_before |-> gm.target,
                                  queued_before |-> Len(hist.qlog)])
    /\ UNCHANGED <<main, bf>>

\* the same for a straight feed
RadiusFeed ==
    /\ main = "idle"
    /\ FinitePosition
    /\ mp_get_planner_buffers_available(St) # 0
    /\ \E in \in RadiusInputs :
          LET r == cm_straight_feed(St, in[1], in[2])
          IN  /\ FiniteTargetInRange(r.s) /\ Room(r.s)
              /\ CommitCall(r.s, [op |-> "cm_straight_feed", status |-> r.status,
                                  planner |-> r.planner,
                                  target |-> in[1], flags |-> in[2],
                                  position_before |-> gm.position,
                                  target_before |-> gm.target,
                                  queued_before |-> Len(hist.qlog)])
    /\ UNCHANGED <<main, bf>>

\* targets in both units modes and both distance modes; the model position
\* and target are settled at call time, so the queued lines are left unrun
NextTarget ==
    \/ Feed
    \/ SetFeedRate
    \/ SetUnitsMode
    \/ SetDistanceMode
    \/ ExecCommand

SpecTarget == InitTarget /\ [][NextTarget]_vars

\* G10 between changes of coordinate system, an alarm and a reset
NextCoord ==
    \/ SetCoordOffsets
    \/ SetCoordSystem
    \/ Alarm
    \/ Reinit
    \/ ExecCommand

SpecCoord == Init /\ [][NextCoord]_vars

\* the combined state read around traverses that run, are held and end
NextCombined ==
    \/ Traverse
    \/ GetCombinedState
    \/ RequestFeedhold
    \/ SequencingCallback
    \/ ExecCommand
    \/ ExecLineStart
    \/ ExecLineEnd
    \/ ExecHoldSync
    \/ ExecHoldDecel

SpecCombined == Init /\ [][NextCombined]_vars

\* motion calls with axis A in radius mode, in both units modes and both
\* distance modes; the calls are judged when they return, so the ring is
\* left unrun
NextRadius ==
    \/ RadiusTraverse
    \/ RadiusFeed
    \/ SetFeedRate
    \/ SetUnitsMode
    \/ SetDistanceMode

SpecRadius == InitRadius /\ [][NextRadius]_vars

\* moves of X in single precision, in both units modes, in a coordinate
\* system with and without an offset
NextSingle ==
    \/ SetTarget
    \/ SetEndpointPosition
    \/ SetUnitsMode

SpecSingle == InitSingle /\ [][NextSingle]_vars

\* feeds and traverses of linear and rotary axes at two feed rates, in and
\* out of inverse time mode; the times are settled at call time, so the
\* queued lines are left unrun
NextTimes ==
    \/ TimedFeed
    \/ TimedTraverse
    \/ FeedRateWord
    \/ SetInverseFeedRateMode
    \/ SetDistanceMode

SpecTimes == Init /\ [][NextTimes]_vars

\* the commands that only change the model, read while a planned traverse
\* waits in the ring; nothing runs the ring, the claim being about what the
\* calls do to it
NextModel ==
    \/ SetFeedRate
    \/ SetUnitsMode
    \/ SetDistanceMode
    \/ SelectPlane
    \/ SetPathControl
    \/ SetInverseFeedRateMode
    \/ OverrideEnables
    \/ FeedRateOverrideEnable
    \/ FeedRateOverrideFactor
    \/ TraverseOverrideEnable
    \/ TraverseOverrideFactor
    \/ SpindleOverrideEnable
    \/ SpindleOverrideFactor

SpecModel == InitPlanned /\ [][NextModel]_vars

\* motion calls and cycle starts inside and outside the homing, probe and jog
\* cycles, with the runtime consuming the ring
NextCycle ==
    \/ BeginCycle
    \/ StraightFeed
    \/ SetFeedRate
    \/ RequestCycleStart
    \/ SequencingCallback
    \/ ExecCommand
    \/ ExecLineStart
    \/ ExecLineEnd

SpecCycle == Init /\ [][NextCycle]_vars

\* program stops and ends behind traverses, in and out of a homing, probe or
\* jog cycle, with feedholds and the runtime consuming the ring
NextFinalize ==
    \/ Traverse
    \/ ProgramStop
    \/ OptionalProgramStop
    \/ ProgramEnd
    \/ BeginCycle
    \/ RequestFeedhold
    \/ SequencingCallback
    \/ ExecCommand
    \/ ExecLineStart
    \/ ExecLineEnd
    \/ ExecHoldSync
    \/ ExecHoldDecel

SpecFinalize == InitProgram /\ [][NextFinalize]_vars

\* changes of coordinate system, the G92 family and G10 ahead of the
\* runtime, which installs the offsets as it reaches their commands
NextInstall ==
    \/ SetCoordSystem
    \/ SetOriginOffsets
    \/ ResetOriginOffsets
    \/ SuspendOriginOffsets
    \/ ResumeOriginOffsets
    \/ SetCoordOffsets
    \/ ExecCommand

SpecInstall == Init /\ [][NextInstall]_vars

\* the commands that wait their turn in the ring, with the runtime running them
NextCommands ==
    \/ ChangeTool
    \/ SelectTool
    \/ MistCoolantControl
    \/ FloodCoolantControl
    \/ SpindleControl
    \/ SetSpindleSpeed
    \/ ProgramStop
    \/ OptionalProgramStop
    \/ ExecCommand

SpecCommands == Init /\ [][NextCommands]_vars

\* the exec context: an interrupt, which runs whenever it has something to do
ExecStep ==
    \/ ExecCommand
    \/ ExecLineStart
    \/ ExecLineEnd
    \/ ExecHoldSync
    \/ ExecHoldDecel

\* returns to the park positions while lines run and feedholds come and go.
\* The interrupt context always gets to run; the main context keeps running
\* too, so a busy-wait whose test has become true and stays true ends, and
\* the main loop keeps coming round to the sequencing callback.
NextWait ==
    \/ Traverse
    \/ GotoG28
    \/ GotoG28Final
    \/ GotoG30
    \/ GotoG30Final
    \/ RequestFeedhold
    \/ RequestCycleStart
    \/ SequencingCallback
    \/ ExecCommand
    \/ ExecLineStart
    \/ ExecLineEnd
    \/ ExecHoldSync
    \/ ExecHoldDecel

\* the busy-wait of lines 786 and 801 is left: the step of GotoG28Final or
\* GotoG30Final
WaitOver ==
    /\ main \in {"g28_wait", "g30_wait"}
    /\ mp_get_planner_buffers_available(St) # 0
    /\ main' = "idle"

SpecWait ==
    /\ InitWait
    /\ [][NextWait]_vars
    /\ WF_vars(ExecStep)
    /\ WF_main(WaitOver)
    /\ WF_vars(SequencingCallback)

\* park positions stored where an earlier return ended and returned to in
\* either units mode and either distance mode; the lines are left unrun, the
\* claim being about the model position the calls leave
NextGoto ==
    \/ SetG28Position
    \/ SetG30Position
    \/ SetUnitsMode
    \/ SetDistanceMode
    \/ GotoG28
    \/ GotoG28Final
    \/ GotoG30
    \/ GotoG30Final
    \/ ExecCommand

SpecGoto == Init /\ [][NextGoto]_vars

\* a program that leaves the defaults and ends; what the call leaves in the
\* model and in the ring is settled when it returns, so the ring is left unrun
NextProgram ==
    \/ SetMotionMode
    \/ SetUnitsMode
    \/ SetDistanceMode
    \/ SelectPlane
    \/ SetInverseFeedRateMode
    \/ SetCoordSystem
    \/ SetOriginOffsets
    \/ ProgramEnd

SpecProgram == InitProgram /\ [][NextProgram]_vars
====
